---------------------------- MODULE Spec2Model ----------------------------
(***************************************************************************)
(* A state-machine model of the dunebugger-remote supervisor:              *)
(*   - InternetConnectionMonitor      (src/app/internet_monitor.py)        *)
(*   - WebPubSubListener              (src/app/dunebugger_websocket.py)    *)
(*   - ComponentUpdater               (src/app/dunebugger_updater.py)      *)
(*   - parse_semver                   (src/app/utils.py)                   *)
(*   - MessageHandler                 (src/app/websocket_message_handler.py)*)
(*   - NTPMonitor                     (src/app/ntp_monitor.py)             *)
(* Each subsystem has its own next-state relation and specification; the   *)
(* variables of the other subsystems stay at their initial values.         *)
(***************************************************************************)
EXTENDS Integers, Sequences, FiniteSets, TLC

VARIABLES
    \* ---- InternetConnectionMonitor ----
    is_connected,               \* self.is_connected
    on_connected_callbacks,     \* self.on_connected_callbacks (list)
    on_disconnected_callbacks,  \* self.on_disconnected_callbacks (list)
    mval,                       \* current_status / new_status held by each thread
    mold,                       \* old_status held by the force_check caller
    mcbs,                       \* the copy of the callback list a thread iterates
    flips,                      \* history: changes of is_connected so far
    passes,                     \* history: notification passes started so far
    mchg,                       \* history: the list registered when a thread's pass started
    mdel,                       \* history: the callbacks a thread's pass has invoked
    \* ---- threads ----
    pc,                         \* position of each thread (event loop, websocket
                                \* client thread, monitor thread, force_check caller)
    \* ---- WebPubSubListener ----
    should_be_connected,        \* self.should_be_connected
    connection_retry_scheduled, \* self.connection_retry_scheduled
    main_event_loop,            \* self.main_event_loop is set
    client,                     \* self.client and the state of its connection
    loopQ,                      \* ready tasks of the asyncio event loop (FIFO)
    sleepers,                   \* reconnection coroutines inside asyncio.sleep(3)
    retrySleeping,              \* retry threads inside time.sleep(delay)
    retryAwake,                 \* retry threads past the reset of the flag
    drops,                      \* history: connection drops so far
    storm,                      \* history: a second restoration was notified while
                                \* the reconnection of an earlier one had not acted
    stormAttempts,              \* history: connection attempts begun since then
    hookRetry,                  \* history: a retry started by the disconnection
                                \* hook has not finished
    cleanDrop,                  \* history: nothing was pending when the connection
                                \* dropped
    \* ---- ComponentUpdater ----
    components,                 \* self.components[key]['version_info']
    installed,                  \* what each component's version_fetcher returns now
    published,                  \* the latest release of each repository on GitHub
    now_h,                      \* datetime.now()
    cu,                         \* the executions of check_updates: position and force
    lastCall,                   \* update_component's outcome in handle_perform_update
    checks,                     \* history: calls of check_updates so far
    envSteps,                   \* history: installs, releases and version settings so far
    \* ---- component health (ComponentUpdater, SystemInfoModel) ----
    now_s,                      \* time.time()
    health,                     \* running flag, latest heartbeat and TTL of each record
    lastRead,                   \* the value a reader of a running status was given
    recorded,                   \* history: the records a heartbeat was recorded for
    beats,                      \* history: heartbeats recorded so far
    \* ---- MessageHandler ----
    outbox,                     \* the envelopes handed to websocket_client.send_message
    bus,                        \* the calls of mqueue_sender.send: recipient and message
    inLog,                      \* history: the inbound cloud messages handled so far
    hh,                         \* position of the event loop inside handle_heartbeat
    heartbeat_event,            \* self.heartbeat_event is set
    countdown_event,            \* self.countdown_event is set
    countdown_timer,            \* self.countdown_timer
    hbpc,                       \* position of the _send_heartbeat thread
    cdpc,                       \* position of the _countdown thread
    cdread,                     \* the timer value _countdown read for its decrement
    quiet,                      \* history: the countdown disarmed the loops and no
                                \* cloud heartbeat has arrived since
    loopOut,                    \* history: envelopes the two loops have emitted
    periods,                    \* history: sleeps of the alive loop that have ended
    \* ---- NTPMonitor ----
    ntp_available,              \* system_info_model._ntp_available
    previous_state,             \* previous_state of _monitoring_loop
    current_state,              \* current_state of _monitoring_loop
    ntp_pc,                     \* position of _monitoring_loop
    cycles,                     \* history: monitoring cycles begun so far
    ntpMark,                    \* history: the lengths of outbox and bus when the
                                \* current monitoring cycle began
    \* ---- _compare_versions (ComponentUpdater) ----
    ver_current,                \* the version string passed as current
    ver_latest,                 \* the version string passed as latest
    current_parsed,             \* current_parsed, once parsed
    latest_parsed,              \* latest_parsed, once parsed
    ver_result,                  \* what _compare_versions returned
    \* ---- inbound cloud messages (WebPubSubListener) ----
    received,                   \* history: the messages _on_message_received was called with, in order
    handlerTasks,               \* handle_message coroutines posted to the event loop, not yet started
    handling,                   \* position of the handle_message coroutine of each received message
    effects,                     \* history: whose handler made each local-bus send and cloud publish
    \* ---- main (src/app/main.py) ----
    main_pc,                    \* position of main()
    shutdown_event,             \* shutdown_event is set
    periodic_check_task,        \* component_updater._periodic_check_task runs
    listening,                  \* the listener of the local bus runs
    torn,                       \* history: the teardown steps that have been carried out
    websocketEnabled,            \* settings.websocketEnabled
    \* ---- stop() (WebPubSubListener) ----
    stop_pc,                    \* position of the caller of stop()
    stop_event,                  \* self.stop_event is set
    \* ---- authentication (AuthClient, update_auth) ----
    wss_url,                    \* self.wss_url: empty, or the signed URL of the last success
    auth_failed,                 \* history: _update_user_info failed in the latest attempt
    \* ---- send_message (WebPubSubListener) ----
    broadcastEnabled,           \* self.broadcastEnabled
    sm,                         \* the call of send_message in progress: position and what it has read
    group_sends,                 \* history: calls of client.send_to_group so far
    \* ---- MessagingQueueHandler.process_mqueue_message ----
    mq_last,                    \* the message last handled and how its handling ended
    mq_handled,                  \* local-bus messages handled
    \* ---- check_connection (InternetConnectionMonitor) ----
    probe_last,                  \* history: the latest probe, what its two steps met and how it ended
    \* ---- check_updates: what each call did ----
    cul,                         \* history: per caller, the queries issued, those that failed, the components skipped and the entries of the result
    \* ---- _send_components_heartbeat_loop (MessageHandler) ----
    chb_pc,                     \* position of the components heartbeat task
    chb_cycles,                 \* history: cycles of the loop begun
    chb_cur,                    \* history: what the current cycle published, and whether a publish failed in it
    chb_cancel,                  \* the task has been cancelled
    \* ---- start/stop_periodic_check and _periodic_check_loop (ComponentUpdater) ----
    pcl_task,                   \* self._periodic_check_task: 0 for None, or the loop task it refers to
    pcl_running,                \* self._running
    pcl_loops,                  \* position of each loop task
    pcl_cancel,                 \* loop tasks whose cancellation has been requested and not yet delivered
    pcl_checks,                 \* history: scheduled check_updates calls begun
    pcl_starts,                 \* history: calls of start_periodic_check
    spc_pc,                     \* position of the caller of stop_periodic_check
    pcl_fetch,                   \* the release query the check_updates call of the loop waits for
    \* ---- the waits of _monitoring_loop (NTPMonitor) ----
    ntw_pc,                     \* position of the monitoring task with its waits timed
    ntw_interval,               \* settings.ntpCheckIntervalSecs
    ntw_now,                    \* the clock, in seconds
    ntw_until,                  \* the end of the sleep in progress
    ntw_probed,                 \* history: the time of the latest probe
    ntw_gap,                    \* history: the time between the latest two probes
    ntw_err                     \* history: the except clause has run since the latest probe

monVars  == <<is_connected, on_connected_callbacks, on_disconnected_callbacks,
              mval, mold, mcbs, flips, passes, mchg, mdel>>
chanVars == <<should_be_connected, connection_retry_scheduled, main_event_loop,
              client, loopQ, sleepers, retrySleeping, retryAwake, drops>>
netVars  == <<monVars, pc, chanVars>>
updVars  == <<components, installed, published, now_h, cu, lastCall, checks,
              envSteps>>
hlthVars == <<now_s, health, lastRead, recorded, beats>>
msgVars  == <<outbox>>
loopVars == <<inLog, hh, heartbeat_event, countdown_event, countdown_timer,
              hbpc, cdpc, cdread, quiet, loopOut, periods>>
ntpVars  == <<ntp_available, previous_state, current_state, ntp_pc, cycles,
              ntpMark>>
verVars  == <<ver_current, ver_latest, current_parsed, latest_parsed, ver_result>>
rxVars   == <<received, handlerTasks, handling, effects>>
mainVars == <<main_pc, shutdown_event, periodic_check_task, listening, torn,
              websocketEnabled>>
stopVars == <<stop_pc, stop_event>>
authVars == <<wss_url, auth_failed>>
sendVars == <<broadcastEnabled, sm, group_sends>>
mqVars   == <<mq_last, mq_handled>>
probeVars == <<probe_last>>
cuhVars  == <<cul>>
chbVars  == <<chb_pc, chb_cycles, chb_cur, chb_cancel>>
pclVars  == <<pcl_task, pcl_running, pcl_loops, pcl_cancel, pcl_checks, pcl_starts, spc_pc, pcl_fetch>>
ntwVars  == <<ntw_pc, ntw_interval, ntw_now, ntw_until, ntw_probed, ntw_gap, ntw_err>>
histVars == <<storm, stormAttempts, hookRetry, cleanDrop>>
restVars == <<updVars, hlthVars, msgVars, bus, loopVars, ntpVars, verVars, rxVars, mainVars, stopVars, authVars, sendVars, mqVars, probeVars, cuhVars, chbVars, pclVars, ntwVars>>
extVars  == <<restVars, histVars>>
notUpd   == <<netVars, histVars, hlthVars, msgVars, bus, loopVars, ntpVars, verVars, rxVars, mainVars, stopVars, authVars, sendVars, mqVars, probeVars, cuhVars, chbVars, pclVars, ntwVars>>
notChk   == <<netVars, histVars, hlthVars, msgVars, bus, loopVars, ntpVars, verVars, rxVars, mainVars, stopVars, authVars, sendVars, mqVars, probeVars, chbVars, pclVars, ntwVars>>
notHlth  == <<netVars, histVars, updVars, msgVars, bus, loopVars, ntpVars, verVars, rxVars, mainVars, stopVars, authVars, sendVars, mqVars, probeVars, cuhVars, chbVars, pclVars, ntwVars>>
notMsg   == <<netVars, histVars, updVars, hlthVars, bus, loopVars, ntpVars, verVars, rxVars, mainVars, stopVars, authVars, sendVars, mqVars, probeVars, cuhVars, chbVars, pclVars, ntwVars>>
notRoute == <<netVars, histVars, updVars, hlthVars, ntpVars, verVars, rxVars, mainVars, stopVars, authVars, sendVars, mqVars, probeVars, cuhVars, chbVars, pclVars, ntwVars>>
notNtp   == <<netVars, histVars, updVars, hlthVars, loopVars, verVars, rxVars, mainVars, stopVars, authVars, sendVars, mqVars, probeVars, cuhVars, chbVars, pclVars, ntwVars>>
notVer   == <<netVars, histVars, updVars, hlthVars, msgVars, bus, loopVars, ntpVars, rxVars, mainVars, stopVars, authVars, sendVars, mqVars, probeVars, cuhVars, chbVars, pclVars, ntwVars>>
notRx    == <<netVars, histVars, updVars, hlthVars, ntpVars, verVars, inLog, hh,
              hbpc, cdpc, cdread, quiet, loopOut, periods, mainVars, stopVars, authVars, sendVars, mqVars, probeVars, cuhVars, chbVars, pclVars, ntwVars>>
notMain  == <<netVars, histVars, updVars, hlthVars, msgVars, bus, loopVars, verVars, rxVars,
              ntp_available, previous_state, current_state, cycles, ntpMark, stopVars, authVars, sendVars, mqVars, probeVars, cuhVars, chbVars, pclVars, ntwVars>>
notStop  == <<histVars, updVars, hlthVars, msgVars, bus, loopVars, ntpVars, verVars,
              rxVars, mainVars, authVars, sendVars, mqVars, probeVars, cuhVars, chbVars, pclVars, ntwVars>>
notAuth  == <<updVars, hlthVars, msgVars, bus, loopVars, ntpVars, verVars, rxVars, mainVars, stopVars, sendVars, mqVars, probeVars, cuhVars, chbVars, pclVars, ntwVars>>
notSend  == <<netVars, histVars, updVars, hlthVars, msgVars, bus, loopVars, ntpVars, verVars, rxVars, mainVars, stopVars, authVars, mqVars, probeVars, cuhVars, chbVars, pclVars, ntwVars>>
notMq    == <<netVars, histVars, updVars, now_s, lastRead, loopVars, ntpVars, verVars,
             rxVars, mainVars, stopVars, authVars, sendVars, probeVars, cuhVars, chbVars, pclVars, ntwVars>>
notProbe == <<updVars, hlthVars, msgVars, bus, loopVars, ntpVars, verVars, rxVars, mainVars,
             stopVars, authVars, sendVars, mqVars, cuhVars, chbVars, pclVars, ntwVars>>
notChb   == <<netVars, histVars, updVars, hlthVars, msgVars, loopVars, ntpVars, verVars,
             rxVars, mainVars, stopVars, authVars, sendVars, mqVars, probeVars, cuhVars, pclVars, ntwVars>>
notPcl   == <<netVars, histVars, updVars, hlthVars, msgVars, bus, loopVars, ntpVars, verVars,
             rxVars, mainVars, stopVars, authVars, sendVars, mqVars, probeVars, cuhVars, chbVars, ntwVars>>
notNtw   == <<netVars, histVars, updVars, hlthVars, msgVars, bus, loopVars, ntpVars, verVars,
             rxVars, mainVars, stopVars, authVars, sendVars, mqVars, probeVars, cuhVars, chbVars, pclVars>>
vars == <<netVars, extVars>>

-----------------------------------------------------------------------------
\* Bounds of the model
MaxFlips == 3       \* changes of the connectivity flag
MaxDrops == 1       \* connection drops of an established websocket
MaxSubs == 2        \* subscribers other parties register per direction
MaxEnv == 2         \* installs, releases and manual version settings
MaxChecks == 2      \* calls of check_updates
MaxClock == 1       \* ticks of the updater's clock
CheckInterval == 1  \* check_interval_hours, in ticks of that clock
MaxBeats == 2       \* heartbeats recorded
MaxTime == 70       \* seconds the health clock runs
MaxOut == 3         \* envelopes handed to the cloud channel
MaxAttempts == 2    \* connection attempts counted after a reconnect storm
MaxIn == 2          \* inbound cloud messages handled
MaxBus == 3         \* calls of the local bus sender
MaxCycles == 3      \* monitoring cycles of the NTP monitor
MaxSends == 2       \* calls of send_to_group
MaxBusIn == 2       \* local-bus messages handled
MaxHbCycles == 3    \* cycles of the components heartbeat loop
MaxStarts == 3      \* calls of start_periodic_check
MaxPeriodicChecks == 4  \* scheduled check_updates calls
MaxNtpInterval == 2 \* the largest ntpCheckIntervalSecs configured
MaxNtpClock == 4    \* seconds the waits of the NTP monitor are followed for
heart_beat_loop_duration_secs == 1   \* settings.heartBeatLoopDurationSecs

-----------------------------------------------------------------------------
(***************************************************************************)
(* Threads.  The asyncio event loop runs one task at a time; a task keeps  *)
(* the loop until it awaits something that suspends it.                    *)
(***************************************************************************)
LoopThread == "loop"   \* the main event loop's thread
WsThread   == "wsc"    \* the websocket client's thread (runs the hooks)
MonThread  == "mon"    \* the thread running _monitor_loop
FcThread   == "fc"     \* a thread calling force_check()
MonThreads == {MonThread, FcThread}
Threads    == {LoopThread, WsThread} \cup MonThreads

-----------------------------------------------------------------------------
(***************************************************************************)
(* InternetConnectionMonitor                                               *)
(***************************************************************************)
WS == "ws"                  \* the cloud channel's callbacks
OtherSubs == {"s1", "s2"}   \* callbacks of other parties

\* get_connection_status()
get_connection_status == is_connected

\* the callback list of one direction (TRUE: connected, FALSE: disconnected)
CallbacksOf(dir) ==
    IF dir THEN on_connected_callbacks ELSE on_disconnected_callbacks

\* list.pop() in the place of list.remove(x)
RemoveFirst_Pop(s, x) == SubSeq(s, 1, Len(s) - 1)

\* list.remove(x): removes the first occurrence
RECURSIVE RemoveFirst(_, _)
RemoveFirst(s, x) ==
    IF s = <<>> THEN <<>>
    ELSE IF Head(s) = x THEN Tail(s)
    ELSE <<Head(s)>> \o RemoveFirst(Tail(s), x)

InSeq(s, x) == \E i \in DOMAIN s : s[i] = x

\* add_connected_callback / add_disconnected_callback (under the lock)
AddCallback(dir, s) ==
    /\ Len(CallbacksOf(dir)) < MaxSubs + 1
    /\ ~InSeq(CallbacksOf(dir), s)
    /\ IF dir
       THEN /\ on_connected_callbacks' = Append(on_connected_callbacks, s)
            /\ UNCHANGED on_disconnected_callbacks
       ELSE /\ on_disconnected_callbacks' = Append(on_disconnected_callbacks, s)
            /\ UNCHANGED on_connected_callbacks
    /\ UNCHANGED <<is_connected, mval, mold, mcbs, flips, passes, mchg, mdel,
                   pc, chanVars>>
    /\ UNCHANGED extVars

\* remove_connected_callback / remove_disconnected_callback (under the lock)
RemoveCallback(dir, s) ==
    /\ InSeq(CallbacksOf(dir), s)
    /\ IF dir
       THEN /\ on_connected_callbacks' = RemoveFirst(on_connected_callbacks, s)
            /\ UNCHANGED on_disconnected_callbacks
       ELSE /\ on_disconnected_callbacks' = RemoveFirst(on_disconnected_callbacks, s)
            /\ UNCHANGED on_connected_callbacks
    /\ UNCHANGED <<is_connected, mval, mold, mcbs, flips, passes, mchg, mdel,
                   pc, chanVars>>
    /\ UNCHANGED extVars

\* check_connection() followed by the comparison with self.is_connected:
\* _monitor_loop lines 148-151, force_check lines 220-222.  The probe's
\* result is the environment's choice.
CheckStatus(t) ==
    /\ pc[t] = "idle"
    /\ \E cur \in BOOLEAN :
         /\ mval' = [mval EXCEPT ![t] = cur]
         /\ IF cur # is_connected
            THEN /\ flips < MaxFlips
                 /\ pc' = [pc EXCEPT ![t] = IF t = FcThread THEN "readold" ELSE "changed"]
            ELSE pc' = pc
    /\ UNCHANGED <<is_connected, on_connected_callbacks, on_disconnected_callbacks,
                   mold, mcbs, flips, passes, mchg, mdel, chanVars>>
    /\ UNCHANGED extVars

\* force_check line 224: old_status = self.is_connected
ReadOld(t) ==
    /\ t = FcThread
    /\ pc[t] = "readold"
    /\ mold' = is_connected
    /\ pc' = [pc EXCEPT ![t] = "changed"]
    /\ UNCHANGED <<is_connected, on_connected_callbacks, on_disconnected_callbacks,
                   mval, mcbs, flips, passes, mchg, mdel, chanVars>>
    /\ UNCHANGED extVars

\* whether the thread notifies after the assignment: _monitor_loop lines
\* 155-160 notify by current_status; force_check lines 228-231 compare
\* new_status with old_status
NotifiesAfterSet(t) ==
    IF t = FcThread THEN mval[t] # mold ELSE TRUE

\* self.is_connected = current_status (line 153) / = new_status (line 225)
SetStatus(t) ==
    /\ pc[t] = "changed"
    /\ is_connected' = mval[t]
    /\ flips' = IF is_connected # mval[t] THEN flips + 1 ELSE flips
    /\ pc' = [pc EXCEPT ![t] = IF NotifiesAfterSet(t) THEN "notify" ELSE "idle"]
    /\ UNCHANGED <<on_connected_callbacks, on_disconnected_callbacks,
                   mval, mold, mcbs, passes, mchg, mdel, chanVars>>
    /\ UNCHANGED extVars

\* _notify_connected / _notify_disconnected: the copy taken under the lock
CopyCallbacks(t) ==
    /\ pc[t] = "notify"
    /\ mcbs' = [mcbs EXCEPT ![t] = CallbacksOf(mval[t])]
    /\ passes' = passes + 1
    /\ mchg' = [mchg EXCEPT ![t] = CallbacksOf(mval[t])]
    /\ mdel' = [mdel EXCEPT ![t] = <<>>]
    /\ pc' = [pc EXCEPT ![t] = "calling"]
    /\ UNCHANGED <<is_connected, on_connected_callbacks, on_disconnected_callbacks,
                   mval, mold, flips, chanVars>>
    /\ UNCHANGED extVars


\* what socket.gethostbyname(self.test_domain) can do: return, or raise
\* gaierror, timeout, another OSError, or the UnicodeError of the idna
\* codec for a domain with an empty or overlong label
DnsOutcomes == {"resolved", "gaierror", "timeout", "OSError", "UnicodeError"}

\* what urlopen and getcode can do: answer 200, answer another 2xx status,
\* or raise HTTPError, URLError, timeout, another OSError, or an
\* http.client.HTTPException (BadStatusLine, IncompleteRead) of getresponse
HttpOutcomes == {"200", "204", "HTTPError", "URLError", "timeout", "OSError",
                 "HTTPException"}

\* a call ends by raising instead of returning "True" or "False"
Raised == "raised"
NoProbe == [caller |-> "none"]

\* _check_dns_resolution(): lines 72-78
_check_dns_resolution(dns) ==
    IF dns = "resolved" THEN "True"
    ELSE IF dns \in {"gaierror", "timeout", "OSError"} THEN "False"
    ELSE Raised

\* _check_http_request(): lines 88-96, the loop over the one url
_check_http_request(http) ==
    IF http = "200" THEN "True"
    ELSE IF http \in {"204", "HTTPError", "URLError", "timeout", "OSError"}
    THEN "False"
    ELSE Raised

\* check_connection(): lines 106-117
check_connection(dns, http) ==
    IF _check_dns_resolution(dns) = Raised THEN Raised
    ELSE IF _check_dns_resolution(dns) = "True"
    THEN _check_http_request(http)
    ELSE "False"

\* one probe by the monitor loop (lines 147-151) or by force_check (lines
\* 220-222) with the outcomes of its two steps.  A result is compared with
\* self.is_connected as in CheckStatus.  An exception leaves force_check
\* to its caller; in the monitor loop it is caught at line 171, after which
\* the loop waits and probes again, self.is_connected untouched.
CheckConnection(t, dns, http) ==
    /\ pc[t] = "idle"
    /\ LET result == check_connection(dns, http)
           cur == result = "True"
       IN /\ probe_last' = [caller |-> t, dns |-> dns, http |-> http,
                            result |-> result, flag |-> is_connected,
                            propagated |-> result = Raised /\ t = FcThread,
                            caught |-> result = Raised /\ t = MonThread]
          /\ IF result = Raised
             THEN UNCHANGED <<mval, pc>>
             ELSE /\ mval' = [mval EXCEPT ![t] = cur]
                  /\ IF cur # is_connected
                     THEN /\ flips < MaxFlips
                          /\ pc' = [pc EXCEPT ![t] = IF t = FcThread THEN "readold"
                                                     ELSE "changed"]
                     ELSE pc' = pc
    /\ UNCHANGED <<is_connected, on_connected_callbacks, on_disconnected_callbacks,
                   mold, mcbs, flips, passes, mchg, mdel, chanVars>>
    /\ UNCHANGED <<notProbe, histVars>>

-----------------------------------------------------------------------------
(***************************************************************************)
(* WebPubSubListener                                                       *)
(***************************************************************************)
\* positions of a task that are inside _attempt_connection
InAttempt == {"att_begin", "att_open", "att_join", "att_fail",
              "sched_read", "sched_set"}

\* self.client and self.client.is_connected()
ClientConnected == client \in {"open", "joined"}

\* where a caller of _schedule_connection_retry continues when it returns
ReturnFromSchedule(t) == IF t \in MonThreads THEN "calling" ELSE "idle"

\* a reconnection coroutine is queued or asleep and nothing else is about
\* to connect: no attempt in flight or queued, no retry thread, no client
EarlierReconnectionWaits ==
    /\ \/ sleepers > 0
       \/ \E i \in DOMAIN loopQ : loopQ[i] \in {"rc_begin", "rc_wake"}
       \/ pc[LoopThread] = "rc_begin"
    /\ pc[LoopThread] \notin InAttempt \cup {"rc_chk", "start", "start_chk"}
    /\ \A i \in DOMAIN loopQ : loopQ[i] \notin {"att_begin", "start"}
    /\ retrySleeping = 0 /\ retryAwake = 0 /\ ~connection_retry_scheduled
    /\ \A t \in Threads : pc[t] \notin {"sched_read", "sched_set", "hook"}
    /\ ~ClientConnected

\* whether anything that leads to a connection attempt is pending
NothingPending ==
    /\ sleepers = 0 /\ retrySleeping = 0 /\ retryAwake = 0
    /\ loopQ = <<>> /\ pc[LoopThread] = "idle"
    /\ \A t \in MonThreads : pc[t] = "idle"

\* _on_internet_connected, run by the thread t that notifies
OnInternetConnected(t) ==
    IF ~should_be_connected
    THEN /\ pc' = pc
         /\ UNCHANGED <<loopQ, storm>>
    ELSE IF main_event_loop
    THEN /\ loopQ' = Append(loopQ, "rc_begin")
         /\ storm' = (storm \/ EarlierReconnectionWaits)
         /\ pc' = pc
    ELSE /\ pc' = [pc EXCEPT ![t] = "sched_read"]
         /\ UNCHANGED <<loopQ, storm>>

\* the for loop of _notify_connected / _notify_disconnected: one callback
CallNext(t) ==
    /\ pc[t] = "calling"
    /\ IF mcbs[t] = <<>>
       THEN /\ pc' = [pc EXCEPT ![t] = "idle"]
            /\ UNCHANGED <<mcbs, mdel, loopQ, storm>>
       ELSE /\ mcbs' = [mcbs EXCEPT ![t] = Tail(mcbs[t])]
            /\ mdel' = [mdel EXCEPT ![t] = Append(mdel[t], Head(mcbs[t]))]
            /\ IF Head(mcbs[t]) = WS /\ mval[t]
               THEN OnInternetConnected(t)
               ELSE /\ pc' = pc
                    /\ UNCHANGED <<loopQ, storm>>
    /\ UNCHANGED <<is_connected, on_connected_callbacks, on_disconnected_callbacks,
                   mval, mold, flips, passes, mchg,
                   should_be_connected, connection_retry_scheduled,
                   main_event_loop, client, sleepers, retrySleeping,
                   retryAwake, drops>>
    /\ UNCHANGED <<restVars, stormAttempts, hookRetry, cleanDrop>>

\* the event loop takes the next ready task
LoopPick ==
    /\ pc[LoopThread] = "idle"
    /\ loopQ # <<>>
    /\ pc' = [pc EXCEPT ![LoopThread] = Head(loopQ)]
    /\ loopQ' = Tail(loopQ)
    /\ UNCHANGED <<monVars, should_be_connected, connection_retry_scheduled,
                   main_event_loop, client, sleepers, retrySleeping,
                   retryAwake, drops>>
    /\ UNCHANGED extVars

\* start(), lines 51-54
Start ==
    /\ pc[LoopThread] = "start"
    /\ main_event_loop' = TRUE
    /\ should_be_connected' = TRUE
    /\ pc' = [pc EXCEPT ![LoopThread] = "start_chk"]
    /\ UNCHANGED <<monVars, connection_retry_scheduled, client, loopQ,
                   sleepers, retrySleeping, retryAwake, drops>>
    /\ UNCHANGED extVars

\* start(), lines 57-62
StartCheck ==
    /\ pc[LoopThread] = "start_chk"
    /\ pc' = [pc EXCEPT ![LoopThread] =
                 IF get_connection_status THEN "att_begin" ELSE "idle"]
    /\ UNCHANGED <<monVars, chanVars>>
    /\ UNCHANGED extVars

\* mutant: _setup_client awaits real I/O, so the task yields the event loop
SetupClientSuspends_Yields == TRUE

\* whether "await self._setup_client()" suspends the task: _setup_client
\* awaits nothing, so the task keeps the event loop
SetupClientSuspends == FALSE

\* _attempt_connection, lines 66-78: close an existing client, then
\* _setup_client.  update_auth does not raise: _update_user_info logs the
\* failure of the token or user-info request and returns, and wss_url
\* keeps the value of the last success.  WebPubSubClient(...) may raise.
AttemptBegin ==
    /\ pc[LoopThread] = "att_begin"
    /\ \E authOk \in BOOLEAN :
         /\ wss_url' = IF authOk THEN "signed" ELSE wss_url
         /\ auth_failed' = ~authOk
    /\ \E built \in BOOLEAN :
         IF built
         THEN /\ client' = "new"
              /\ IF SetupClientSuspends
                 THEN /\ loopQ' = Append(loopQ, "att_open")
                      /\ pc' = [pc EXCEPT ![LoopThread] = "idle"]
                 ELSE /\ pc' = [pc EXCEPT ![LoopThread] = "att_open"]
                      /\ UNCHANGED loopQ
         ELSE /\ client' = "none"
              /\ pc' = [pc EXCEPT ![LoopThread] = "att_fail"]
              /\ UNCHANGED loopQ
    /\ stormAttempts' = IF storm /\ stormAttempts < MaxAttempts
                        THEN stormAttempts + 1 ELSE stormAttempts
    /\ UNCHANGED <<monVars, should_be_connected, connection_retry_scheduled,
                   main_event_loop, sleepers, retrySleeping, retryAwake, drops>>
    /\ UNCHANGED <<notAuth, storm, hookRetry, cleanDrop>>

\* _attempt_connection, line 82: self.client.open(), which fails without
\* a URL
AttemptOpen ==
    /\ pc[LoopThread] = "att_open"
    /\ \E ok \in BOOLEAN :
         IF ok /\ wss_url = "signed"
         THEN /\ client' = "open"
              /\ pc' = [pc EXCEPT ![LoopThread] = "att_join"]
         ELSE /\ UNCHANGED client
              /\ pc' = [pc EXCEPT ![LoopThread] = "att_fail"]
    /\ UNCHANGED <<monVars, should_be_connected, connection_retry_scheduled,
                   main_event_loop, loopQ, sleepers, retrySleeping,
                   retryAwake, drops>>
    /\ UNCHANGED extVars

\* _attempt_connection, lines 86-91: join_group, then the first heartbeat
AttemptJoin ==
    /\ pc[LoopThread] = "att_join"
    /\ \E ok \in BOOLEAN :
         IF ok /\ client = "open"
         THEN /\ client' = "joined"
              /\ pc' = [pc EXCEPT ![LoopThread] = "idle"]
         ELSE /\ UNCHANGED client
              /\ pc' = [pc EXCEPT ![LoopThread] = "att_fail"]
    /\ UNCHANGED <<monVars, should_be_connected, connection_retry_scheduled,
                   main_event_loop, loopQ, sleepers, retrySleeping,
                   retryAwake, drops>>
    /\ UNCHANGED extVars

\* mutant: the except branch cleans up but schedules no retry
AttemptFail_NoRetry ==
    /\ pc[LoopThread] = "att_fail"
    /\ client' = "none"
    /\ pc' = [pc EXCEPT ![LoopThread] = "idle"]
    /\ UNCHANGED <<monVars, should_be_connected, connection_retry_scheduled,
                   main_event_loop, loopQ, sleepers, retrySleeping,
                   retryAwake, drops>>
    /\ UNCHANGED extVars

\* _attempt_connection, lines 93-107: the except branch
AttemptFail ==
    /\ pc[LoopThread] = "att_fail"
    /\ client' = "none"
    /\ pc' = [pc EXCEPT ![LoopThread] =
                 IF get_connection_status /\ should_be_connected
                 THEN "sched_read" ELSE "idle"]
    /\ UNCHANGED <<monVars, should_be_connected, connection_retry_scheduled,
                   main_event_loop, loopQ, sleepers, retrySleeping,
                   retryAwake, drops>>
    /\ UNCHANGED extVars

\* _schedule_connection_retry, lines 220-222: the test of the flag
ScheduleRetryRead(t) ==
    /\ pc[t] = "sched_read"
    /\ pc' = [pc EXCEPT ![t] = IF connection_retry_scheduled
                                THEN ReturnFromSchedule(t) ELSE "sched_set"]
    /\ UNCHANGED <<monVars, chanVars>>
    /\ UNCHANGED extVars

\* _schedule_connection_retry, lines 224-266: set the flag, start the thread
ScheduleRetrySet(t) ==
    /\ pc[t] = "sched_set"
    /\ connection_retry_scheduled' = TRUE
    /\ retrySleeping' = retrySleeping + 1
    /\ pc' = [pc EXCEPT ![t] = ReturnFromSchedule(t)]
    /\ hookRetry' = (hookRetry \/ t = WsThread)
    /\ UNCHANGED <<monVars, should_be_connected, main_event_loop, client,
                   loopQ, sleepers, retryAwake, drops>>
    /\ UNCHANGED <<restVars, storm, stormAttempts, cleanDrop>>

\* retry_connection, lines 230-233: the sleep ends, the flag is reset
RetryWake ==
    /\ retrySleeping > 0
    /\ retrySleeping' = retrySleeping - 1
    /\ retryAwake' = retryAwake + 1
    /\ connection_retry_scheduled' = FALSE
    /\ UNCHANGED <<monVars, pc, should_be_connected, main_event_loop, client,
                   loopQ, sleepers, drops>>
    /\ UNCHANGED extVars

\* retry_connection, lines 236-257: the checks, then _attempt_connection is
\* handed to the main event loop (get_running_loop raises in a thread)
RetryCheck ==
    /\ retryAwake > 0
    /\ retryAwake' = retryAwake - 1
    /\ IF should_be_connected /\ get_connection_status /\ main_event_loop
       THEN loopQ' = Append(loopQ, "att_begin")
       ELSE UNCHANGED loopQ
    /\ hookRetry' = (hookRetry /\ retrySleeping + retryAwake > 1)
    /\ UNCHANGED <<monVars, pc, should_be_connected, connection_retry_scheduled,
                   main_event_loop, client, sleepers, retrySleeping, drops>>
    /\ UNCHANGED <<restVars, storm, stormAttempts, cleanDrop>>

\* _handle_internet_reconnection, lines 186-194: up to asyncio.sleep(3)
ReconnectBegin ==
    /\ pc[LoopThread] = "rc_begin"
    /\ pc' = [pc EXCEPT ![LoopThread] = "idle"]
    /\ sleepers' = IF should_be_connected THEN sleepers + 1 ELSE sleepers
    /\ UNCHANGED <<monVars, should_be_connected, connection_retry_scheduled,
                   main_event_loop, client, loopQ, retrySleeping, retryAwake,
                   drops>>
    /\ UNCHANGED extVars

\* asyncio.sleep(3) of one reconnection coroutine ends
ReconnectSleepEnds ==
    /\ sleepers > 0
    /\ sleepers' = sleepers - 1
    /\ loopQ' = Append(loopQ, "rc_wake")
    /\ UNCHANGED <<monVars, pc, should_be_connected, connection_retry_scheduled,
                   main_event_loop, client, retrySleeping, retryAwake, drops>>
    /\ UNCHANGED extVars

\* _handle_internet_reconnection, lines 197-199: the double check
ReconnectWake ==
    /\ pc[LoopThread] = "rc_wake"
    /\ pc' = [pc EXCEPT ![LoopThread] =
                 IF get_connection_status THEN "rc_chk" ELSE "idle"]
    /\ UNCHANGED <<monVars, chanVars>>
    /\ UNCHANGED extVars

\* _handle_internet_reconnection, lines 202-209
ReconnectCheckClient ==
    /\ pc[LoopThread] = "rc_chk"
    /\ pc' = [pc EXCEPT ![LoopThread] =
                 IF ClientConnected THEN "idle" ELSE "att_begin"]
    /\ UNCHANGED <<monVars, chanVars>>
    /\ UNCHANGED extVars

\* the connection of the client drops: its DISCONNECTED event calls
\* _handle_websocket_disconnection on the client's thread
Disconnect ==
    /\ ClientConnected
    /\ pc[WsThread] = "idle"
    /\ drops < MaxDrops
    /\ drops' = drops + 1
    /\ client' = "lost"
    /\ pc' = [pc EXCEPT ![WsThread] = "hook"]
    /\ cleanDrop' = NothingPending
    /\ UNCHANGED <<monVars, should_be_connected, connection_retry_scheduled,
                   main_event_loop, loopQ, sleepers, retrySleeping, retryAwake>>
    /\ UNCHANGED <<restVars, storm, stormAttempts, hookRetry>>

\* _handle_websocket_disconnection, lines 118-127
HandleWebsocketDisconnection ==
    /\ pc[WsThread] = "hook"
    /\ pc' = [pc EXCEPT ![WsThread] =
                 IF ~get_connection_status THEN "idle"
                 ELSE IF should_be_connected THEN "sched_read" ELSE "idle"]
    /\ UNCHANGED <<monVars, chanVars>>
    /\ UNCHANGED extVars

-----------------------------------------------------------------------------
(***************************************************************************)
(* parse_semver (src/app/utils.py).  A version string is the sequence of   *)
(* its characters.                                                         *)
(***************************************************************************)
DigitChars == <<"0", "1", "2", "3", "4", "5", "6", "7", "8", "9">>
LowerChars == <<"a", "b", "c", "d", "e", "f", "g", "h", "i", "j", "k", "l", "m",
                "n", "o", "p", "q", "r", "s", "t", "u", "v", "w", "x", "y", "z">>
Digits == {DigitChars[i] : i \in DOMAIN DigitChars}

\* the value of one decimal digit
DigitVal(c) == (CHOOSE i \in DOMAIN DigitChars : DigitChars[i] = c) - 1

\* the code point of a character, which orders Python's strings
Ord(c) ==
    IF c = "-" THEN 45
    ELSE IF c = "." THEN 46
    ELSE IF c \in Digits THEN 48 + DigitVal(c)
    ELSE 96 + (CHOOSE i \in DOMAIN LowerChars : LowerChars[i] = c)

\* str.find(sub): the first position of sub in s, 0 when absent
Find(s, sub) ==
    LET hits == {i \in 1..(Len(s) - Len(sub) + 1) :
                    SubSeq(s, i, i + Len(sub) - 1) = sub}
    IN IF hits = {} THEN 0 ELSE CHOOSE i \in hits : \A j \in hits : i <= j

\* str.rfind(sub): the last position of sub in s, 0 when absent
RFind(s, sub) ==
    LET hits == {i \in 1..(Len(s) - Len(sub) + 1) :
                    SubSeq(s, i, i + Len(sub) - 1) = sub}
    IN IF hits = {} THEN 0 ELSE CHOOSE i \in hits : \A j \in hits : j <= i

\* s.split(sub)[0]
BeforeFirst(s, sub) ==
    IF Find(s, sub) = 0 THEN s ELSE SubSeq(s, 1, Find(s, sub) - 1)

\* s.split(sep)
RECURSIVE Split(_, _)
Split(s, sep) ==
    LET i == Find(s, sep)
    IN IF i = 0 THEN <<s>>
       ELSE <<SubSeq(s, 1, i - 1)>> \o Split(SubSeq(s, i + Len(sep), Len(s)), sep)

\* int(x) succeeds (no ValueError)
IsInt(x) == x # <<>> /\ \A i \in DOMAIN x : x[i] \in Digits

\* int(x)
RECURSIVE ToInt(_)
ToInt(x) ==
    IF x = <<>> THEN 0
    ELSE 10 * ToInt(SubSeq(x, 1, Len(x) - 1)) + DigitVal(x[Len(x)])

\* the base version: tuple(int(x) for x in base.split('.')), (0, 0, 0) on
\* a ValueError
BaseParts(base) ==
    LET parts == Split(base, <<".">>)
    IN IF \A i \in DOMAIN parts : IsInt(parts[i])
       THEN [i \in DOMAIN parts |-> ToInt(parts[i])]
       ELSE <<0, 0, 0>>

\* a prerelease tuple that keeps the name and the number in one string
PreTuple_NoNumber(pre) ==
    <<BeforeFirst(BeforeFirst(pre, <<".", "d", "e", "v">>),
                  <<".", "d", "i", "r", "t", "y">>), 0>>

\* the prerelease tuple of a non-empty prerelease part
PreTuple(pre) ==
    LET pre_clean == BeforeFirst(BeforeFirst(pre, <<".", "d", "e", "v">>),
                                 <<".", "d", "i", "r", "t", "y">>)
        dot == RFind(pre_clean, <<".">>)
        pre_name == SubSeq(pre_clean, 1, dot - 1)
        pre_num == SubSeq(pre_clean, dot + 1, Len(pre_clean))
    IN IF dot > 0 /\ IsInt(pre_num)
       THEN <<pre_name, ToInt(pre_num)>>
       ELSE <<pre_clean, 0>>

\* parse_semver(ver_str): (base_parts, is_release, pre_tuple)
parse_semver(ver_str) ==
    LET dash == Find(ver_str, <<"-">>)
        base == IF dash > 0 THEN SubSeq(ver_str, 1, dash - 1) ELSE ver_str
        pre == IF dash > 0 THEN SubSeq(ver_str, dash + 1, Len(ver_str)) ELSE <<>>
    IN IF pre # <<>>
       THEN [base_parts |-> BaseParts(base), is_release |-> 0,
             pre_tuple |-> PreTuple(pre)]
       ELSE [base_parts |-> BaseParts(base), is_release |-> 1,
             pre_tuple |-> <<>>]

\* Python's x < y on tuples of integers
IntTupleLess(x, y) ==
    \E i \in 1..Len(y) :
        /\ i - 1 <= Len(x)
        /\ \A j \in 1..(i - 1) : x[j] = y[j]
        /\ (i <= Len(x) => x[i] < y[i])

\* Python's x < y on strings
StrLess(x, y) ==
    \E i \in 1..Len(y) :
        /\ i - 1 <= Len(x)
        /\ \A j \in 1..(i - 1) : x[j] = y[j]
        /\ (i <= Len(x) => Ord(x[i]) < Ord(y[i]))

\* Python's a > b on the tuples parse_semver returns
TupleGreater(a, b) ==
    \/ IntTupleLess(b.base_parts, a.base_parts)
    \/ /\ a.base_parts = b.base_parts
       /\ \/ a.is_release > b.is_release
          \/ /\ a.is_release = 0 /\ b.is_release = 0
             /\ \/ StrLess(b.pre_tuple[1], a.pre_tuple[1])
                \/ /\ a.pre_tuple[1] = b.pre_tuple[1]
                   /\ b.pre_tuple[2] < a.pre_tuple[2]

-----------------------------------------------------------------------------
(***************************************************************************)
(* ComponentUpdater (src/app/dunebugger_updater.py)                        *)
(***************************************************************************)
\* self.components, in the order _init_components inserts the keys
Order == <<"core", "scheduler", "remote">>
Keys == {Order[i] : i \in DOMAIN Order}

\* the versions installed and released in the model
V100 == <<"1", ".", "0", ".", "0">>
V101 == <<"1", ".", "0", ".", "1">>
Versions == {V100, V101}

\* latest_version: Optional[str] = None
None == <<"None">>
\* last_checked: Optional[datetime] = None
NoTime == -1

\* the callers of check_updates: _periodic_check_loop and handle_check_updates
Callers == {"periodic", "request"}
Returned == Len(Order) + 1

\* no update_component outcome is waiting in handle_perform_update
NoCall == [key |-> "none"]

\* check_updates and update_component return to callers that run on without
\* awaiting: nothing else runs until the caller has taken the result
CallerRuns == lastCall # NoCall \/ \E c \in Callers : cu[c].i = Returned

\* _compare_versions(current, latest): True when latest > current.  The
\* fallbacks are not reachable: parse_semver raises nothing on a string.
_compare_versions(current, latest) ==
    TupleGreater(parse_semver(latest), parse_semver(current))

\* _refresh_component_version: current_version = version_fetcher()
_refresh_component_version(comps, k) ==
    [comps EXCEPT ![k].current_version = installed[k]]

\* set_component_version(component_key, version)
SetComponentVersion(k, v) ==
    /\ ~CallerRuns
    /\ envSteps < MaxEnv
    /\ components' = IF k \in Keys
                     THEN [components EXCEPT ![k].current_version = v]
                     ELSE components
    /\ envSteps' = envSteps + 1
    /\ UNCHANGED <<checks, installed, published, now_h, cu, lastCall>>
    /\ UNCHANGED notUpd

\* mutant: the query is issued whenever the component was checked before
RunToFetch_NoSkip(comps, i, force) ==
    IF i > Len(Order)
    THEN [components |-> comps, i |-> Returned, skipped |-> <<>>]
    ELSE [components |-> _refresh_component_version(comps, Order[i]),
          i |-> i, skipped |-> <<>>]

\* check_updates from component number i up to its next await of
\* _fetch_latest_version: the refresh of each component and the skip of
\* those checked less than check_interval_hours ago, which it returns as
\* skipped
RECURSIVE RunToFetch(_, _, _)
RunToFetch(comps, i, force) ==
    IF i > Len(Order)
    THEN [components |-> comps, i |-> Returned, skipped |-> <<>>]
    ELSE LET k == Order[i]
             c1 == _refresh_component_version(comps, k)
         IN IF /\ ~force
               /\ c1[k].last_checked # NoTime
               /\ now_h - c1[k].last_checked < CheckInterval
            THEN LET r == RunToFetch(c1, i + 1, force)
                 IN [r EXCEPT !.skipped = <<k>> \o @]
            ELSE [components |-> c1, i |-> i, skipped |-> <<>>]

\* no call of check_updates has been made by a caller
NoTrace == [force |-> FALSE, issued |-> <<>>, failed |-> {}, skipped |-> <<>>,
            results |-> <<>>]
NoTraces == [c \in Callers |-> NoTrace]

\* the release query check_updates is waiting for at position i, if any
Issued(i) == IF i \in DOMAIN Order THEN <<Order[i]>> ELSE <<>>

\* check_updates(force) is called: _periodic_check_loop passes force=False,
\* handle_check_updates the force of the request
CheckUpdatesCalled(c, force) ==
    /\ ~CallerRuns
    /\ cu[c].i = 0
    /\ checks < MaxChecks
    /\ checks' = checks + 1
    /\ c = "periodic" => ~force
    /\ LET r == RunToFetch(components, 1, force)
       IN /\ components' = r.components
          /\ cu' = [cu EXCEPT ![c] = [i |-> r.i, force |-> force /\ r.i # Returned]]
    /\ UNCHANGED <<installed, published, now_h, lastCall, envSteps>>
    /\ UNCHANGED notChk

CheckUpdates(c, force) ==
    /\ CheckUpdatesCalled(c, force)
    /\ UNCHANGED cul

\* the call with its history kept
CheckUpdatesTraced(c, force) ==
    /\ CheckUpdatesCalled(c, force)
    /\ LET r == RunToFetch(components, 1, force)
       IN cul' = [cul EXCEPT ![c] = [force |-> force, issued |-> Issued(r.i),
                                     failed |-> {}, skipped |-> r.skipped,
                                     results |-> r.skipped]]

\* the assignments after a successful _fetch_latest_version, lines 192-200
\* (release_url, release_notes and prerelease are assigned with
\* latest_version and are not kept apart from it)
Fetched(comps, k) ==
    [comps EXCEPT ![k] =
        [current_version |-> comps[k].current_version,
         latest_version |-> published[k],
         update_available |-> _compare_versions(comps[k].current_version,
                                                published[k]),
         last_checked |-> now_h]]

\* mutant: a failed query clears what was known of the release
FetchFailed_Clears(comps, k) ==
    [comps EXCEPT ![k].latest_version = None, ![k].update_available = FALSE]

\* lines 207-208: the exception of _fetch_latest_version is logged
FetchFailed(comps, k) == comps

\* _fetch_latest_version returns or raises; check_updates runs on to its
\* next await or to its return
FetchReturned(c, ok) ==
    /\ ~CallerRuns
    /\ cu[c].i \in DOMAIN Order
    /\ LET k == Order[cu[c].i]
           c1 == IF ok THEN Fetched(components, k) ELSE FetchFailed(components, k)
           r == RunToFetch(c1, cu[c].i + 1, cu[c].force)
       IN /\ components' = r.components
          /\ cu' = [cu EXCEPT ![c] = [i |-> r.i, force |-> cu[c].force /\ r.i # Returned]]
    /\ UNCHANGED <<checks, installed, published, now_h, lastCall, envSteps>>
    /\ UNCHANGED notChk

FetchReturns(c) ==
    /\ \E ok \in BOOLEAN : FetchReturned(c, ok)
    /\ UNCHANGED cul

\* the return of the query with the history kept
FetchReturnsTraced(c) ==
    \E ok \in BOOLEAN :
      /\ FetchReturned(c, ok)
      /\ LET k == Order[cu[c].i]
             c1 == IF ok THEN Fetched(components, k) ELSE FetchFailed(components, k)
             r == RunToFetch(c1, cu[c].i + 1, cu[c].force)
         IN cul' = [cul EXCEPT ![c].issued = @ \o Issued(r.i),
                               ![c].failed = IF ok THEN @ ELSE @ \cup {k},
                               ![c].skipped = @ \o r.skipped,
                               ![c].results = @ \o <<k>> \o r.skipped]

\* the caller of check_updates takes the results
CheckUpdatesReturn(c) ==
    /\ cu[c].i = Returned
    /\ cu' = [cu EXCEPT ![c] = [i |-> 0, force |-> FALSE]]
    /\ UNCHANGED <<checks, components, installed, published, now_h, lastCall, envSteps>>
    /\ UNCHANGED notUpd

\* the message of a refusal by the update order
OrderMessage(component_key) ==
    <<"Cannot update ", component_key, " before ", "core",
      ". Core has an available update and must be updated first.">>

\* mutant: the order check looks at the wrong component's flag
_verify_update_order_requirement_WrongKey(component_key) ==
    IF component_key = "core"
    THEN [success |-> TRUE, message |-> <<>>]
    ELSE IF components["remote"].update_available
    THEN [success |-> FALSE, message |-> OrderMessage(component_key),
          level |-> "error"]
    ELSE [success |-> TRUE, message |-> <<>>]

\* _verify_update_order_requirement(component_key)
_verify_update_order_requirement(component_key) ==
    IF component_key = "core"
    THEN [success |-> TRUE, message |-> <<>>]
    ELSE IF components["core"].update_available
    THEN [success |-> FALSE, message |-> OrderMessage(component_key),
          level |-> "error"]
    ELSE [success |-> TRUE, message |-> <<>>]

\* update_component(component_key): what it returns or raises.  Line 363
\* reads the name dry_run, which is neither a parameter nor a global: once
\* the checks pass, the call raises NameError before its try block.
update_component(component_key) ==
    IF component_key \notin Keys
    THEN [raised |-> FALSE,
          value |-> [success |-> FALSE,
                     message |-> <<"Unknown component: ", component_key>>,
                     level |-> "error"]]
    ELSE IF ~_verify_update_order_requirement(component_key).success
    THEN [raised |-> FALSE,
          value |-> _verify_update_order_requirement(component_key)]
    ELSE IF ~components[component_key].update_available
    THEN [raised |-> FALSE,
          value |-> [success |-> FALSE,
                     message |-> <<"No update available for ", component_key>>]]
    ELSE [raised |-> TRUE, value |-> "NameError"]

\* the files update_component writes under an update-request directory:
\* it has no such directory and opens no file before line 363 raises
RequestFilesWritten(component_key) == 0

\* handle_perform_update, lines 195-205: the call of update_component
UpdateComponent(component_key) ==
    /\ ~CallerRuns
    /\ lastCall' = [key |-> component_key,
                    raised |-> update_component(component_key).raised,
                    value |-> update_component(component_key).value,
                    request_files |-> RequestFilesWritten(component_key)]
    /\ UNCHANGED <<checks, components, installed, published, now_h, cu, envSteps>>
    /\ UNCHANGED notUpd

\* handle_perform_update, lines 214-222: the outcome is dispatched
PerformUpdateDone ==
    /\ lastCall # NoCall
    /\ lastCall' = NoCall
    /\ UNCHANGED <<checks, components, installed, published, now_h, cu, envSteps>>
    /\ UNCHANGED notUpd

\* the environment: another version of a component is installed
Install(k, v) ==
    /\ ~CallerRuns
    /\ envSteps < MaxEnv
    /\ v # installed[k]
    /\ installed' = [installed EXCEPT ![k] = v]
    /\ envSteps' = envSteps + 1
    /\ UNCHANGED <<checks, components, published, now_h, cu, lastCall>>
    /\ UNCHANGED notUpd

\* the environment: a release is published in a component's repository
Publish(k, v) ==
    /\ ~CallerRuns
    /\ envSteps < MaxEnv
    /\ v # published[k]
    /\ published' = [published EXCEPT ![k] = v]
    /\ envSteps' = envSteps + 1
    /\ UNCHANGED <<checks, components, installed, now_h, cu, lastCall>>
    /\ UNCHANGED notUpd

\* the environment: time passes
Tick ==
    /\ ~CallerRuns
    /\ now_h < MaxClock
    /\ now_h' = now_h + 1
    /\ UNCHANGED <<checks, components, installed, published, cu, lastCall, envSteps>>
    /\ UNCHANGED notUpd

-----------------------------------------------------------------------------
(***************************************************************************)
(* Component health: ComponentUpdater's ComponentHealth records and the    *)
(* heartbeat flags of SystemInfoModel (src/app/dunebugger_system_info.py)  *)
(***************************************************************************)
HeartbeatTTL == 45          \* ComponentHealth.heartbeat_ttl
RemoteTTL == 315576000      \* heartbeat_ttl of the remote's own record
SystemInfoTTL == 45         \* SystemInfoModel._heartbeat_ttl
\* latest_heartbeat: Optional[datetime] = None
NoHeartbeat == -1

UpdaterRecords == {<<"updater", k>> : k \in Keys}
SystemInfoRecords == {<<"system_info", "core">>, <<"system_info", "scheduler">>}
HealthRecords == UpdaterRecords \cup SystemInfoRecords

\* no reader is holding a value it was just given
NoRead == [store |-> <<>>]

\* mutant: the record counts as expired at the TTL itself
Expired_AtTTL(h) == now_s - h.latest_heartbeat >= h.heartbeat_ttl

\* current_time - latest_heartbeat > heartbeat_ttl
Expired(h) == now_s - h.latest_heartbeat > h.heartbeat_ttl

\* a heartbeat is recorded: the flag is set and the timestamp taken
Beat(s) ==
    /\ lastRead = NoRead
    /\ beats < MaxBeats
    /\ health' = [health EXCEPT ![s].running = TRUE,
                                ![s].latest_heartbeat = now_s]
    /\ recorded' = recorded \cup {s}
    /\ beats' = beats + 1
    /\ UNCHANGED <<now_s, lastRead>>
    /\ UNCHANGED notHlth

\* a running status is read: False when the flag is down, False and the
\* flag taken down when the record has expired, True otherwise
Read(s) ==
    /\ lastRead = NoRead
    /\ lastRead' = [store |-> s,
                    value |-> health[s].running /\ ~Expired(health[s])]
    /\ health' = IF health[s].running /\ Expired(health[s])
                 THEN [health EXCEPT ![s].running = FALSE]
                 ELSE health
    /\ UNCHANGED <<now_s, recorded, beats>>
    /\ UNCHANGED notHlth

\* set_component_running(component_key)
SetComponentRunning(k) ==
    /\ k \in Keys
    /\ Beat(<<"updater", k>>)

\* get_component_running(component_key)
GetComponentRunning(k) ==
    /\ k \in Keys
    /\ Read(<<"updater", k>>)

\* set_heartbeat_core_alive / set_heartbeat_scheduler_alive
SetHeartbeatAlive(c) ==
    /\ <<"system_info", c>> \in SystemInfoRecords
    /\ Beat(<<"system_info", c>>)

\* is_heartbeat_core_alive / is_heartbeat_scheduler_alive
IsHeartbeatAlive(c) ==
    /\ <<"system_info", c>> \in SystemInfoRecords
    /\ Read(<<"system_info", c>>)

\* the reader goes on with the value
ReadDone ==
    /\ lastRead # NoRead
    /\ lastRead' = NoRead
    /\ UNCHANGED <<now_s, health, recorded, beats>>
    /\ UNCHANGED notHlth

\* time passes
Advance(d) ==
    /\ lastRead = NoRead
    /\ now_s + d <= MaxTime
    /\ now_s' = now_s + d
    /\ UNCHANGED <<health, lastRead, recorded, beats>>
    /\ UNCHANGED notHlth

-----------------------------------------------------------------------------
(***************************************************************************)
(* MessageHandler (src/app/websocket_message_handler.py): the envelopes it *)
(* hands to the cloud channel                                              *)
(***************************************************************************)
\* the caller passed no connection_id
Unsupplied == "unsupplied"
ConnectionIds == {Unsupplied, "conn1"}
Subjects == {"log", "update_check_result"}

\* self.alive_message
alive_message ==
    [body |-> "I am alive", subject |-> "heartbeat", source |-> "controller",
     destination |-> "broadcast"]

\* the envelope dispatch_message(message_body, subject, connection_id) builds;
\* connection_id defaults to "broadcast"
dispatch_message(message_body, subject, connection_id) ==
    [body |-> message_body, subject |-> subject, source |-> "controller",
     destination |-> IF connection_id = Unsupplied THEN "broadcast"
                     ELSE connection_id]

\* websocket_client.send_message(data): the envelope joins those handed
\* over, with the connection id its sender was given
Handed(data, supplied) ==
    Append(outbox, [envelope |-> data, supplied |-> supplied])

\* dispatch_message called by the forwarders and the update handlers
DispatchMessage(subject, connection_id) ==
    /\ Len(outbox) < MaxOut
    /\ outbox' = Handed(dispatch_message("body", subject, connection_id),
                        connection_id)
    /\ UNCHANGED notMsg

\* _send_heartbeat and the controller heartbeat request: the alive message
SendAlive ==
    /\ Len(outbox) < MaxOut
    /\ outbox' = Handed(alive_message, Unsupplied)
    /\ UNCHANGED notMsg

\* send_log(log_message)
SendLog ==
    /\ Len(outbox) < MaxOut
    /\ outbox' = Handed([body |-> "body", subject |-> "log",
                         source |-> "controller"], Unsupplied)
    /\ UNCHANGED notMsg

\* send_system_info(): nothing is sent when get_system_info raises
SendSystemInfo ==
    /\ Len(outbox) < MaxOut
    /\ \E ok \in BOOLEAN :
         outbox' = IF ok
                   THEN Handed(dispatch_message("body", "system_info", Unsupplied),
                               Unsupplied)
                   ELSE outbox
    /\ UNCHANGED notMsg

\* send_ntp_status()
SendNtpStatus ==
    /\ Len(outbox) < MaxOut
    /\ outbox' = Handed(dispatch_message("body", "ntp_status", Unsupplied),
                        Unsupplied)
    /\ UNCHANGED notMsg

-----------------------------------------------------------------------------
(***************************************************************************)
(* MessageHandler: the routing of inbound cloud messages and the two       *)
(* heartbeat loops (src/app/websocket_message_handler.py).  The handler    *)
(* runs on the event loop's thread, _send_heartbeat and _countdown each on *)
(* a thread of their own; the three share countdown_timer and two events.  *)
(***************************************************************************)
StrCore == <<"c", "o", "r", "e">>
StrScheduler == <<"s", "c", "h", "e", "d", "u", "l", "e", "r">>
StrController == <<"c", "o", "n", "t", "r", "o", "l", "l", "e", "r">>
StrUpdater == <<"u", "p", "d", "a", "t", "e", "r">>
StrHeartbeat == <<"h", "e", "a", "r", "t", "b", "e", "a", "t">>
StrSystemInfo == <<"s", "y", "s", "t", "e", "m", "_", "i", "n", "f", "o">>
StrNtpStatus == <<"n", "t", "p", "_", "s", "t", "a", "t", "u", "s">>
StrCheckUpdates ==
    <<"c", "h", "e", "c", "k", "_", "u", "p", "d", "a", "t", "e", "s">>
StrUpdate == <<"u", "p", "d", "a", "t", "e">>

\* the subject "<recipient>.<subject>" a cloud client addresses
Dotted(recipient, subject) == recipient \o <<".">> \o subject

\* the subjects of the inbound cloud messages
InSubjects ==
    {Dotted(StrCore, <<"a", ".", "b">>), Dotted(StrScheduler, <<"x">>),
     Dotted(StrController, StrHeartbeat), Dotted(StrController, StrSystemInfo),
     Dotted(StrController, StrNtpStatus), Dotted(StrUpdater, StrCheckUpdates),
     Dotted(StrUpdater, StrUpdate), Dotted(StrController, <<"x", "y", "z">>),
     Dotted(<<"u", "n", "k", "n", "o", "w", "n">>, <<"x", "y", "z">>),
     StrHeartbeat}

\* the inbound cloud messages: from a client, the controller's own echo,
\* one without a source and one without a subject
InMessages ==
    [subject : InSubjects, source : {"client", "controller"}]
        \cup {[subject |-> Dotted(StrCore, <<"a", ".", "b">>)],
              [source |-> "client"]}

\* mutant: the source is never read from the message
SourceOf_Default(m) == "unknown"

\* websocket_message.get("source", "unknown")
SourceOf(m) == IF "source" \in DOMAIN m THEN m.source ELSE "unknown"

\* what handling one message hands over: the calls of mqueue_sender.send,
\* the envelopes for the cloud channel, and whether handle_heartbeat runs
Routed(b, c, h) == [bus |-> b, cloud |-> c, heartbeat |-> h]

\* original_subject.split(".", 1) cut at the last dot instead of the first
SplitSubject_LastDot(original_subject) ==
    LET dot == RFind(original_subject, <<".">>)
    IN IF dot = 0 THEN [recipient |-> None, subject |-> original_subject]
       ELSE [recipient |-> SubSeq(original_subject, 1, dot - 1),
             subject |-> SubSeq(original_subject, dot + 1, Len(original_subject))]

\* lines 47-53: recipient and subject of original_subject, which is split
\* at its first dot when it has one; recipient stays None otherwise
SplitSubject(original_subject) ==
    LET dot == Find(original_subject, <<".">>)
    IN IF dot = 0 THEN [recipient |-> None, subject |-> original_subject]
       ELSE [recipient |-> SubSeq(original_subject, 1, dot - 1),
             subject |-> SubSeq(original_subject, dot + 1, Len(original_subject))]

\* process_websocket_message(websocket_message) up to handle_heartbeat
process_websocket_message(websocket_message) ==
    IF "subject" \notin DOMAIN websocket_message
    THEN Routed(<<>>, <<>>, FALSE)                         \* KeyError, logged
    ELSE IF SourceOf(websocket_message) = "controller"
    THEN Routed(<<>>, <<>>, FALSE)                         \* message from self
    ELSE
    LET parts == SplitSubject(websocket_message.subject)
        recipient == parts.recipient
        subject == parts.subject
        modified_message == [websocket_message EXCEPT !.subject = subject]
        cloud(s) == <<[envelope |-> dispatch_message("body", s, Unsupplied),
                       supplied |-> Unsupplied]>>
    IN IF recipient \in {StrCore, StrScheduler}
       THEN Routed(<<[recipient |-> recipient, message |-> modified_message]>>,
                   <<>>, FALSE)
       ELSE IF recipient \in {StrController, StrUpdater}
       THEN IF subject = StrHeartbeat
            THEN Routed(<<>>, <<[envelope |-> alive_message,
                                 supplied |-> Unsupplied]>>, TRUE)
            ELSE IF subject = StrSystemInfo
            THEN Routed(<<>>, cloud("system_info"), FALSE)
            ELSE IF subject = StrNtpStatus
            THEN Routed(<<>>, cloud("ntp_status"), FALSE)
            ELSE IF subject = StrCheckUpdates
            THEN Routed(<<>>, cloud("update_check_result"), FALSE)
            ELSE IF subject = StrUpdate
            THEN Routed(<<>>, cloud("log"), FALSE)
            ELSE Routed(<<>>, <<>>, FALSE)
       ELSE Routed(<<>>, <<>>, FALSE)

\* the event loop handles one inbound cloud message; a heartbeat request
\* goes on into handle_heartbeat
ProcessWebsocketMessage(m) ==
    /\ hh = "idle"
    /\ Len(inLog) < MaxIn
    /\ LET r == process_websocket_message(m)
       IN /\ Len(outbox) + Len(r.cloud) <= MaxOut
          /\ inLog' = Append(inLog, m)
          /\ bus' = bus \o r.bus
          /\ outbox' = outbox \o r.cloud
          /\ hh' = IF r.heartbeat THEN "reset" ELSE "idle"
          /\ quiet' = (quiet /\ ~r.heartbeat)
    /\ UNCHANGED <<heartbeat_event, countdown_event, countdown_timer, hbpc,
                   cdpc, cdread, loopOut, periods>>
    /\ UNCHANGED notRoute

\* handle_heartbeat, line 113: self.countdown_timer = duration
HandleHeartbeatReset ==
    /\ hh = "reset"
    /\ countdown_timer' = heart_beat_loop_duration_secs
    /\ hh' = "set_heartbeat"
    /\ UNCHANGED <<bus, inLog, heartbeat_event, countdown_event, hbpc, cdpc,
                   cdread, quiet, loopOut, periods, outbox>>
    /\ UNCHANGED notRoute

\* handle_heartbeat, line 114: self.heartbeat_event.set()
HandleHeartbeatSetHeartbeat ==
    /\ hh = "set_heartbeat"
    /\ heartbeat_event' = TRUE
    /\ hh' = "set_countdown"
    /\ UNCHANGED <<bus, inLog, countdown_event, countdown_timer, hbpc, cdpc,
                   cdread, quiet, loopOut, periods, outbox>>
    /\ UNCHANGED notRoute

\* handle_heartbeat, line 115: self.countdown_event.set(), and the return
HandleHeartbeatSetCountdown ==
    /\ hh = "set_countdown"
    /\ countdown_event' = TRUE
    /\ hh' = "idle"
    /\ UNCHANGED <<bus, inLog, heartbeat_event, countdown_timer, hbpc, cdpc,
                   cdread, quiet, loopOut, periods, outbox>>
    /\ UNCHANGED notRoute

\* _send_heartbeat: heartbeat_event.wait() returns
SendHeartbeatWake ==
    /\ hbpc = "wait"
    /\ heartbeat_event
    /\ hbpc' = "send"
    /\ UNCHANGED <<bus, inLog, hh, heartbeat_event, countdown_event,
                   countdown_timer, cdpc, cdread, quiet, loopOut, periods,
                   outbox>>
    /\ UNCHANGED notRoute

\* _send_heartbeat: send_message(self.alive_message), then the sleep begins
SendHeartbeatSend ==
    /\ hbpc = "send"
    /\ Len(outbox) < MaxOut
    /\ outbox' = Handed(alive_message, Unsupplied)
    /\ loopOut' = loopOut + 1
    /\ hbpc' = "sleep"
    /\ UNCHANGED <<bus, inLog, hh, heartbeat_event, countdown_event,
                   countdown_timer, cdpc, cdread, quiet, periods>>
    /\ UNCHANGED notRoute

\* _send_heartbeat: time.sleep(heart_beat_every_secs) is over
SendHeartbeatSleepEnds ==
    /\ hbpc = "sleep"
    /\ hbpc' = "wait"
    /\ periods' = IF periods < MaxOut THEN periods + 1 ELSE periods
    /\ UNCHANGED <<bus, inLog, hh, heartbeat_event, countdown_event,
                   countdown_timer, cdpc, cdread, quiet, loopOut, outbox>>
    /\ UNCHANGED notRoute

\* _countdown: countdown_event.wait() returns
CountdownWake ==
    /\ cdpc = "wait"
    /\ countdown_event
    /\ cdpc' = "test"
    /\ UNCHANGED <<bus, inLog, hh, heartbeat_event, countdown_event,
                   countdown_timer, hbpc, cdread, quiet, loopOut, periods,
                   outbox>>
    /\ UNCHANGED notRoute

\* _countdown, lines 104 and 107: the two tests of countdown_timer
CountdownTest ==
    /\ cdpc = "test"
    /\ cdpc' = IF countdown_timer > 0 THEN "sleep"
               ELSE IF countdown_timer = 0 THEN "query"
               ELSE "wait"
    /\ UNCHANGED <<bus, inLog, hh, heartbeat_event, countdown_event,
                   countdown_timer, hbpc, cdread, quiet, loopOut, periods,
                   outbox>>
    /\ UNCHANGED notRoute

\* _countdown, lines 105-106: after time.sleep(1) the timer is read ...
CountdownLoad ==
    /\ cdpc = "sleep"
    /\ cdread' = countdown_timer
    /\ cdpc' = "store"
    /\ UNCHANGED <<bus, inLog, hh, heartbeat_event, countdown_event,
                   countdown_timer, hbpc, quiet, loopOut, periods, outbox>>
    /\ UNCHANGED notRoute

\* ... and written back one lower (countdown_timer -= 1 is a read and a write)
CountdownStore ==
    /\ cdpc = "store"
    /\ countdown_timer' = cdread - 1
    /\ cdpc' = "wait"
    /\ UNCHANGED <<bus, inLog, hh, heartbeat_event, countdown_event, hbpc,
                   cdread, quiet, loopOut, periods, outbox>>
    /\ UNCHANGED notRoute

\* _countdown, line 108: dispatch_message("Is anyone there?", "heartbeat",
\* "broadcast")
CountdownQuery ==
    /\ cdpc = "query"
    /\ Len(outbox) < MaxOut
    /\ outbox' = Handed(dispatch_message("Is anyone there?", "heartbeat",
                                         "broadcast"), "broadcast")
    /\ loopOut' = loopOut + 1
    /\ cdpc' = "clear_heartbeat"
    /\ UNCHANGED <<bus, inLog, hh, heartbeat_event, countdown_event,
                   countdown_timer, hbpc, cdread, quiet, periods>>
    /\ UNCHANGED notRoute

\* _countdown, line 109: self.heartbeat_event.clear()
CountdownClearHeartbeat ==
    /\ cdpc = "clear_heartbeat"
    /\ heartbeat_event' = FALSE
    /\ cdpc' = "clear_countdown"
    /\ UNCHANGED <<bus, inLog, hh, countdown_event, countdown_timer, hbpc,
                   cdread, quiet, loopOut, periods, outbox>>
    /\ UNCHANGED notRoute

\* _countdown, line 110: self.countdown_event.clear(); the loops are
\* disarmed from here on unless a heartbeat request set an event meanwhile
CountdownClearCountdown ==
    /\ cdpc = "clear_countdown"
    /\ countdown_event' = FALSE
    /\ cdpc' = "wait"
    /\ quiet' = (~heartbeat_event /\ hh = "idle")
    /\ UNCHANGED <<bus, inLog, hh, heartbeat_event, countdown_timer, hbpc,
                   cdread, loopOut, periods, outbox>>
    /\ UNCHANGED notRoute

-----------------------------------------------------------------------------
(***************************************************************************)
(* NTPMonitor (src/app/ntp_monitor.py): the monitoring loop, a task of the *)
(* event loop, and the two requests for the status that the event loop     *)
(* serves while the monitoring loop sleeps.                                *)
(***************************************************************************)
NoSends == [cloud |-> 0, bus |-> 0]

\* MessagingQueueHandler.dispatch_message(message_body, subject, recipient):
\* the call of mqueue_sender.send it makes
mqueue_dispatch_message(message_body, subject, recipient) ==
    [recipient |-> recipient,
     message |-> [body |-> message_body, subject |-> subject,
                  source |-> "mQueueClientID"]]

\* _notify_scheduler_ntp_status(ntp_available)
_notify_scheduler_ntp_status(ntp) ==
    Append(bus, mqueue_dispatch_message([ntp_available |-> ntp], StrNtpStatus,
                                        StrScheduler))

\* MessageHandler.send_ntp_status(): the envelope carries the model's value
send_ntp_status ==
    Handed(dispatch_message([ntp_available |-> ntp_available], "ntp_status",
                            Unsupplied), Unsupplied)

\* mutant: every cycle counts as a change
StateChanged_Always(probe) == TRUE

\* line 127: previous_state is not None and current_state != previous_state
\* (line 115 has assigned previous_state before the loop)
StateChanged(probe) == probe # previous_state

\* _monitoring_loop, lines 109-115: the initial check and its notification
NtpInitialCheck(probe) ==
    /\ ntp_pc = "init"
    /\ current_state' = probe
    /\ ntp_available' = probe
    /\ bus' = _notify_scheduler_ntp_status(probe)
    /\ previous_state' = probe
    /\ ntp_pc' = "sleep"
    /\ UNCHANGED <<cycles, ntpMark, outbox>>
    /\ UNCHANGED notNtp

\* lines 120-127: the sleep ends, the servers are probed, the model is
\* updated and the state is compared with the previous one
NtpProbe(probe) ==
    /\ ntp_pc = "sleep"
    /\ cycles < MaxCycles
    /\ cycles' = cycles + 1
    /\ current_state' = probe
    /\ ntp_available' = probe
    /\ ntpMark' = [cloud |-> Len(outbox), bus |-> Len(bus)]
    /\ ntp_pc' = IF StateChanged(probe) THEN "send_ntp_status" ELSE "end"
    /\ UNCHANGED <<previous_state, bus, outbox>>
    /\ UNCHANGED notNtp

\* line 131: self.websocket_message_handler.send_ntp_status()
NtpSendStatus ==
    /\ ntp_pc = "send_ntp_status"
    /\ Len(outbox) < MaxOut
    /\ outbox' = send_ntp_status
    /\ ntp_pc' = "notify_scheduler"
    /\ UNCHANGED <<ntp_available, previous_state, current_state, cycles,
                   ntpMark, bus>>
    /\ UNCHANGED notNtp

\* line 134: await self._notify_scheduler_ntp_status(current_state)
NtpNotifyScheduler ==
    /\ ntp_pc = "notify_scheduler"
    /\ Len(bus) < MaxBus
    /\ bus' = _notify_scheduler_ntp_status(current_state)
    /\ ntp_pc' = "end"
    /\ UNCHANGED <<ntp_available, previous_state, current_state, cycles,
                   ntpMark, outbox>>
    /\ UNCHANGED notNtp

\* line 136: previous_state = current_state, and the next sleep begins
NtpCycleEnd ==
    /\ ntp_pc = "end"
    /\ previous_state' = current_state
    /\ ntp_pc' = "sleep"
    /\ UNCHANGED <<ntp_available, current_state, cycles, ntpMark, bus, outbox>>
    /\ UNCHANGED notNtp

\* the cloud's ntp_status request, served while the monitoring loop sleeps
NtpStatusRequest ==
    /\ ntp_pc = "sleep"
    /\ Len(outbox) < MaxOut
    /\ outbox' = send_ntp_status
    /\ UNCHANGED <<ntp_available, previous_state, current_state, ntp_pc,
                   cycles, ntpMark, bus>>
    /\ UNCHANGED notNtp

\* send_ntp_status_to_scheduler(), the scheduler's get_ntp_status request
SendNtpStatusToScheduler ==
    /\ ntp_pc = "sleep"
    /\ Len(bus) < MaxBus
    /\ bus' = _notify_scheduler_ntp_status(ntp_available)
    /\ UNCHANGED <<ntp_available, previous_state, current_state, ntp_pc,
                   cycles, ntpMark, outbox>>
    /\ UNCHANGED notNtp

-----------------------------------------------------------------------------
(***************************************************************************)
(* MessagingQueueHandler (src/app/mqueue_handler.py): the handler of the   *)
(* messages of the local bus                                               *)
(***************************************************************************)
StrRemote == <<"r", "e", "m", "o", "t", "e">>
StrRoot == <<"d", "b">>                    \* the first segment of a bus subject
StrLog == <<"l", "o", "g">>
StrSequence == <<"s", "e", "q", "u", "e", "n", "c", "e">>
StrGetVersion == <<"g", "e", "t", "_", "v", "e", "r", "s", "i", "o", "n">>
StrGetNtpStatus == <<"g", "e", "t", "_">> \o StrNtpStatus
StrBogus == <<"b", "o", "g", "u", "s">>
StrVersionInfo == <<"v", "e", "r", "s", "i", "o", "n", "_", "i", "n", "f", "o">>

\* line 49: the subjects forwarded to the cloud (two of the eleven)
ForwardedSubjects == {StrLog, StrSequence}

\* the components whose heartbeats process_mqueue_message knows
HeartbeatSources == {"core", "scheduler"}

\* a field the JSON object does not have; a payload that is not JSON
Absent == "absent"
NotJson == [json |-> FALSE]

\* subjects the bus delivers: root.recipient.subject, and subjects of two
\* segments and of one
BusSubjects ==
    {Dotted(StrRoot, Dotted(StrRemote, l)) :
        l \in {StrHeartbeat, StrGetNtpStatus, StrGetVersion, StrLog,
               StrSequence, StrBogus}}
        \cup {Dotted(StrRemote, StrHeartbeat), StrHeartbeat}

\* payloads: not JSON, or an object whose source and body may be missing
BusPayloads ==
    {NotJson} \cup [json : {TRUE}, source : {"core", "scheduler", Absent},
                    body : {"body", Absent}]

BusMessages == [subject : BusSubjects, data : BusPayloads,
                reply : {Absent, "core"}]

NoBusMessage == [outcome |-> "none"]

\* (mqueue_message.subject).split(".")[2]
LogicalSubject(segments) == segments[3]

\* process_mqueue_message(mqueue_message), lines 15-58.  The payload is
\* decoded; a payload that is not JSON is reported and the handler returns.
\* Inside the second try the subject is taken from the third segment and
\* the branch for it runs; whatever is raised there is caught and logged.
\* Line 58 then formats the local variable subject, which is unbound when
\* the split had fewer than three segments: UnboundLocalError leaves the
\* handler.
ProcessMqueueMessage(m) ==
    /\ mq_handled < MaxBusIn
    /\ Len(bus) < MaxBus
    /\ Len(outbox) < MaxOut
    /\ mq_handled' = mq_handled + 1
    /\ LET segments == Split(m.subject, <<".">>)
           decoded == m.data.json
           bound == Len(segments) >= 3
           subject == LogicalSubject(segments)
           source == m.data.source
           heartbeat == decoded /\ bound /\ subject = StrHeartbeat
                            /\ source \in HeartbeatSources
           s == <<"system_info", source>>
       IN /\ mq_last' = [message |-> m,
                         outcome |-> IF ~decoded THEN "returned"
                                     ELSE IF bound THEN "returned"
                                     ELSE "raised"]
          /\ health' = IF heartbeat
                       THEN [health EXCEPT ![s].running = TRUE,
                                           ![s].latest_heartbeat = now_s]
                       ELSE health
          /\ recorded' = IF heartbeat THEN recorded \cup {s} ELSE recorded
          /\ beats' = IF heartbeat THEN beats + 1 ELSE beats
          /\ bus' = IF ~(decoded /\ bound) THEN bus
                    ELSE IF subject = StrGetNtpStatus /\ source = "scheduler"
                    THEN _notify_scheduler_ntp_status(ntp_available)
                    ELSE IF subject = StrGetVersion
                    THEN Append(bus, mqueue_dispatch_message(
                                        "version_info", StrVersionInfo,
                                        IF m.reply # Absent THEN m.reply
                                        ELSE source))
                    ELSE bus
          /\ outbox' = IF decoded /\ bound /\ subject \in ForwardedSubjects
                          /\ m.data.body # Absent
                       THEN Handed(dispatch_message(m.data.body, subject,
                                                    Unsupplied), Unsupplied)
                       ELSE outbox
    /\ UNCHANGED notMq

-----------------------------------------------------------------------------
(***************************************************************************)
(* MessageHandler: the components heartbeat task                           *)
(* (src/app/websocket_message_handler.py, lines 224-253), a task of the    *)
(* event loop.  class_factory has set the messaging queue handler and its  *)
(* sender before the task is started.                                      *)
(***************************************************************************)
\* self.component_heartbeat_message
component_heartbeat_message ==
    [body |-> "are you there?", subject |-> "heartbeat", source |-> "controller"]

NoCycle == [core |-> 0, scheduler |-> 0, failed |-> FALSE]

\* mutant: an exception of a publish ends the loop
AfterException_Break == "ended"

\* lines 251-253: the exception is logged and the loop continues with the
\* next sleep
AfterException == "sleep"

\* start_components_heartbeat(): the task is created unless there is one
StartComponentsHeartbeat ==
    /\ chb_pc = "none"
    /\ chb_pc' = "sleep"
    /\ UNCHANGED <<chb_cycles, chb_cur, chb_cancel, bus>>
    /\ UNCHANGED notChb

\* line 234: await asyncio.sleep(30) is over, a cycle begins
HeartbeatSleepEnds ==
    /\ chb_pc = "sleep"
    /\ ~chb_cancel
    /\ chb_cycles < MaxHbCycles
    /\ chb_cycles' = chb_cycles + 1
    /\ chb_cur' = NoCycle
    /\ chb_pc' = "send_core"
    /\ UNCHANGED <<chb_cancel, bus>>
    /\ UNCHANGED notChb

\* lines 237-240: await mqueue_sender.send(component_heartbeat_message,
\* "core"); it returns, or raises and leaves the try
HeartbeatSendCore(ok) ==
    /\ chb_pc = "send_core"
    /\ ~chb_cancel
    /\ IF ok
       THEN /\ bus' = Append(bus, [recipient |-> StrCore,
                                   message |-> component_heartbeat_message])
            /\ chb_cur' = [chb_cur EXCEPT !.core = @ + 1]
            /\ chb_pc' = "send_scheduler"
       ELSE /\ bus' = bus
            /\ chb_cur' = [chb_cur EXCEPT !.failed = TRUE]
            /\ chb_pc' = AfterException
    /\ UNCHANGED <<chb_cycles, chb_cancel>>
    /\ UNCHANGED notChb

\* lines 242-245: await mqueue_sender.send(component_heartbeat_message,
\* "scheduler")
HeartbeatSendScheduler(ok) ==
    /\ chb_pc = "send_scheduler"
    /\ ~chb_cancel
    /\ IF ok
       THEN /\ bus' = Append(bus, [recipient |-> StrScheduler,
                                   message |-> component_heartbeat_message])
            /\ chb_cur' = [chb_cur EXCEPT !.scheduler = @ + 1]
            /\ chb_pc' = "sleep"
       ELSE /\ bus' = bus
            /\ chb_cur' = [chb_cur EXCEPT !.failed = TRUE]
            /\ chb_pc' = AfterException
    /\ UNCHANGED <<chb_cycles, chb_cancel>>
    /\ UNCHANGED notChb

\* the task is cancelled (the event loop cancels its remaining tasks when
\* it is shut down)
CancelHeartbeatTask ==
    /\ chb_pc \in {"sleep", "send_core", "send_scheduler"}
    /\ ~chb_cancel
    /\ chb_cancel' = TRUE
    /\ UNCHANGED <<chb_pc, chb_cycles, chb_cur, bus>>
    /\ UNCHANGED notChb

\* lines 248-250: CancelledError is raised at the await the task stands at
\* and the loop breaks; a send that was under way may or may not have
\* reached the bus
HeartbeatCancelled ==
    /\ chb_cancel
    /\ chb_pc \in {"sleep", "send_core", "send_scheduler"}
    /\ chb_pc' = "ended"
    /\ \E reached \in BOOLEAN :
         IF reached /\ chb_pc # "sleep"
         THEN LET to == IF chb_pc = "send_core" THEN StrCore ELSE StrScheduler
              IN /\ bus' = Append(bus, [recipient |-> to,
                                        message |-> component_heartbeat_message])
                 /\ chb_cur' = IF chb_pc = "send_core"
                               THEN [chb_cur EXCEPT !.core = @ + 1]
                               ELSE [chb_cur EXCEPT !.scheduler = @ + 1]
         ELSE UNCHANGED <<bus, chb_cur>>
    /\ UNCHANGED <<chb_cycles, chb_cancel>>
    /\ UNCHANGED notChb

-----------------------------------------------------------------------------
(***************************************************************************)
(* ComponentUpdater: the periodic check task and its start and stop        *)
(* (src/app/dunebugger_updater.py, lines 125-162).  A loop task stands at  *)
(* one of its awaits: "created" before its first step, "check" inside      *)
(* await check_updates(force=False), "sleep" in the sleep of the interval, *)
(* "error_sleep" in the sleep of the except clause.  The code between two  *)
(* awaits runs in one step of the event loop.                              *)
(***************************************************************************)
LoopIds == 1..MaxStarts

Alive(loops) == {id \in LoopIds : loops[id] \notin {"unborn", "ended"}}

\* line 127: if self._periodic_check_task is None
MayCreate(task) == task = 0

\* mutant: stop_periodic_check does not wait for the task
TaskAwaited_NoWait(loops, id) == TRUE

\* lines 137-140: await self._periodic_check_task is over when the task
\* has ended, with or without a CancelledError
TaskAwaited(loops, id) == loops[id] = "ended"

\* start_periodic_check()
StartPeriodicCheck ==
    /\ spc_pc = "idle"
    /\ pcl_starts < MaxStarts
    /\ pcl_starts' = pcl_starts + 1
    /\ IF MayCreate(pcl_task)
       THEN LET id == pcl_starts + 1
            IN /\ pcl_running' = TRUE
               /\ pcl_loops' = [pcl_loops EXCEPT ![id] = "created"]
               /\ pcl_task' = id
       ELSE UNCHANGED <<pcl_running, pcl_loops, pcl_task>>
    /\ UNCHANGED <<pcl_cancel, pcl_checks, spc_pc, pcl_fetch>>
    /\ UNCHANGED notPcl

\* lines 150-153: while self._running: ... await self.check_updates(force=
\* False); the position after the test of the loop condition
LoopTest(running) == IF running THEN "check" ELSE "ended"

\* a step of a loop task that arrives at the test of the loop condition
EntersLoop(id) ==
    /\ pcl_loops' = [pcl_loops EXCEPT ![id] = LoopTest(pcl_running)]
    /\ pcl_checks' = IF pcl_running THEN pcl_checks + 1 ELSE pcl_checks
    /\ pcl_fetch' = IF pcl_running THEN 1 ELSE 0

\* the first step of a loop task
PeriodicLoopBegins(id) ==
    /\ pcl_loops[id] = "created"
    /\ id \notin pcl_cancel
    /\ pcl_checks < MaxPeriodicChecks
    /\ EntersLoop(id)
    /\ UNCHANGED <<pcl_task, pcl_running, pcl_cancel, pcl_starts, spc_pc>>
    /\ UNCHANGED notPcl

\* lines 189-208 of check_updates: the release query of a component
\* returns or raises, which check_updates logs, and the next is awaited
PeriodicFetchReturns(id) ==
    /\ pcl_loops[id] = "check"
    /\ id \notin pcl_cancel
    /\ pcl_fetch < Len(Order)
    /\ pcl_fetch' = pcl_fetch + 1
    /\ UNCHANGED <<pcl_task, pcl_running, pcl_loops, pcl_cancel, pcl_checks,
                   pcl_starts, spc_pc>>
    /\ UNCHANGED notPcl

\* lines 153-162: check_updates returns, the components left being skipped
\* as checked within the interval, and the task sleeps for the interval; or
\* it raises and the task sleeps for an hour
PeriodicCheckDone(id, ok) ==
    /\ pcl_loops[id] = "check"
    /\ id \notin pcl_cancel
    /\ pcl_loops' = [pcl_loops EXCEPT ![id] = IF ok THEN "sleep" ELSE "error_sleep"]
    /\ pcl_fetch' = 0
    /\ UNCHANGED <<pcl_task, pcl_running, pcl_cancel, pcl_checks, pcl_starts, spc_pc>>
    /\ UNCHANGED notPcl

\* lines 156, 162: a sleep is over and the loop condition is tested
PeriodicSleepEnds(id) ==
    /\ pcl_loops[id] \in {"sleep", "error_sleep"}
    /\ id \notin pcl_cancel
    /\ pcl_checks < MaxPeriodicChecks
    /\ EntersLoop(id)
    /\ UNCHANGED <<pcl_task, pcl_running, pcl_cancel, pcl_starts, spc_pc>>
    /\ UNCHANGED notPcl

\* lines 157-158: the CancelledError is raised at the await the task stands
\* at: inside the try the loop breaks, in the sleep of the except clause
\* and before the first step it ends the task as it is
PeriodicCancelled(id) ==
    /\ id \in pcl_cancel
    /\ pcl_loops[id] \in {"created", "check", "sleep", "error_sleep"}
    /\ pcl_loops' = [pcl_loops EXCEPT ![id] = "ended"]
    /\ pcl_cancel' = pcl_cancel \ {id}
    /\ pcl_fetch' = 0
    /\ UNCHANGED <<pcl_task, pcl_running, pcl_checks, pcl_starts, spc_pc>>
    /\ UNCHANGED notPcl

\* stop_periodic_check(), lines 134-138: up to its await
StopPeriodicCheckCalled ==
    /\ spc_pc = "idle"
    /\ pcl_running' = FALSE
    /\ IF pcl_task # 0
       THEN /\ pcl_cancel' = IF pcl_loops[pcl_task] = "ended"
                             THEN pcl_cancel ELSE pcl_cancel \cup {pcl_task}
            /\ spc_pc' = "awaiting"
       ELSE /\ pcl_cancel' = pcl_cancel
            /\ spc_pc' = "returned"
    /\ UNCHANGED <<pcl_task, pcl_loops, pcl_checks, pcl_starts, pcl_fetch>>
    /\ UNCHANGED notPcl

\* stop_periodic_check(), lines 138-142: the await is over
StopPeriodicCheckReturns ==
    /\ spc_pc = "awaiting"
    /\ TaskAwaited(pcl_loops, pcl_task)
    /\ pcl_task' = 0
    /\ spc_pc' = "returned"
    /\ UNCHANGED <<pcl_running, pcl_loops, pcl_cancel, pcl_checks, pcl_starts, pcl_fetch>>
    /\ UNCHANGED notPcl

-----------------------------------------------------------------------------
(***************************************************************************)
(* NTPMonitor._monitoring_loop with its waits timed                        *)
(* (src/app/ntp_monitor.py, lines 106-144).  The clock counts whole        *)
(* seconds; a probe that is answered takes less than one.                  *)
(***************************************************************************)
\* the values of ntpCheckIntervalSecs in the model
NtpIntervals == 0..MaxNtpInterval

\* lines 120 and 144: await asyncio.sleep(settings.ntpCheckIntervalSecs)
SleepSecs(interval) == interval

\* check_ntp_availability() runs at the present time
Probes ==
    /\ ntw_gap' = IF ntw_probed = NoTime THEN NoTime ELSE ntw_now - ntw_probed
    /\ ntw_probed' = ntw_now

\* the configuration is loaded: setattr(self, option, ...)
NtpIntervalConfigured(v) ==
    /\ ntw_pc = "unconfigured"
    /\ ntw_interval' = v
    /\ ntw_pc' = "init"
    /\ UNCHANGED <<ntw_now, ntw_until, ntw_probed, ntw_gap, ntw_err>>
    /\ UNCHANGED notNtw

\* a second passes
NtpClockTick ==
    /\ ntw_pc \in {"sleep", "error_sleep"}
    /\ ntw_now < MaxNtpClock
    /\ ntw_now' = ntw_now + 1
    /\ UNCHANGED <<ntw_pc, ntw_interval, ntw_until, ntw_probed, ntw_gap, ntw_err>>
    /\ UNCHANGED notNtw

\* lines 106-120: the initial check and its notification, and the loop
\* begins its first sleep
NtpFirstCheck ==
    /\ ntw_pc = "init"
    /\ Probes
    /\ ntw_until' = ntw_now + SleepSecs(ntw_interval)
    /\ ntw_pc' = "sleep"
    /\ UNCHANGED <<ntw_interval, ntw_now, ntw_err>>
    /\ UNCHANGED notNtw

\* lines 120-144: the sleep of the try block is over and the probe is
\* made; the cycle runs to the next sleep of the try block, or a call
\* after the probe raises and the except clause begins its sleep
NtpTimedProbe(ok) ==
    /\ ntw_pc = "sleep"
    /\ ntw_now >= ntw_until
    /\ Probes
    /\ ntw_err' = FALSE
    /\ ntw_until' = ntw_now + SleepSecs(ntw_interval)
    /\ ntw_pc' = IF ok THEN "sleep" ELSE "error_sleep"
    /\ UNCHANGED <<ntw_interval, ntw_now>>
    /\ UNCHANGED notNtw

\* line 144: the sleep of the except clause is over and the loop begins
\* the sleep of the try block
NtpErrorSleepEnds ==
    /\ ntw_pc = "error_sleep"
    /\ ntw_now >= ntw_until
    /\ ntw_err' = TRUE
    /\ ntw_until' = ntw_now + SleepSecs(ntw_interval)
    /\ ntw_pc' = "sleep"
    /\ UNCHANGED <<ntw_interval, ntw_now, ntw_probed, ntw_gap>>
    /\ UNCHANGED notNtw

-----------------------------------------------------------------------------
(***************************************************************************)
(* Version comparison (src/app/utils.py, _compare_versions)                *)
(***************************************************************************)
V10 == <<"1", ".", "0">>
StrBeta == <<"b", "e", "t", "a">>
StrAlpha == <<"a", "l", "p", "h", "a">>

\* str(n) of a natural number
RECURSIVE Decimal(_)
Decimal(n) ==
    IF n < 10 THEN <<DigitChars[n + 1]>>
    ELSE Decimal(n \div 10) \o <<DigitChars[(n % 10) + 1]>>

\* the tag <base>-<name>.<n> of a numbered prerelease
PreVersion(base, name, n) == base \o <<"-">> \o name \o <<".">> \o Decimal(n)

PreNumbers == {2, 3, 10}
PreNames == {StrBeta, StrAlpha}
PreBases == {V100, V101}

\* the suffixes of development builds
DevSuffixes == {<<".", "d", "e", "v", "2">>, <<".", "d", "e", "v", "7">>,
                <<".", "d", "i", "r", "t", "y">>}

\* the version strings compared in the model: releases, numbered
\* prereleases, a prerelease without a number, and development builds of a
\* release and of a prerelease
VersionStrings ==
    {V100, V101, V10, V100 \o <<"-">> \o StrBeta}
    \cup {PreVersion(b, nm, n) : b \in PreBases, nm \in PreNames, n \in PreNumbers}
    \cup {v \o s : v \in {V100, PreVersion(V100, StrBeta, 3)}, s \in DevSuffixes}

\* no parse result yet
NotParsed == [base_parts |-> <<>>, is_release |-> 2, pre_tuple |-> <<>>]

\* _compare_versions, lines 789-790: both strings are parsed
CompareParse ==
    /\ current_parsed = NotParsed
    /\ current_parsed' = parse_semver(ver_current)
    /\ latest_parsed' = parse_semver(ver_latest)
    /\ UNCHANGED <<ver_current, ver_latest, ver_result>>
    /\ UNCHANGED notVer

\* _compare_versions, line 795: return latest_parsed > current_parsed
CompareReturn ==
    /\ current_parsed # NotParsed
    /\ ver_result = "pending"
    /\ ver_result' = IF TupleGreater(latest_parsed, current_parsed)
                     THEN "True" ELSE "False"
    /\ UNCHANGED <<ver_current, ver_latest, current_parsed, latest_parsed>>
    /\ UNCHANGED notVer

-----------------------------------------------------------------------------
(***************************************************************************)
(* Inbound cloud messages: from the client's thread to their handlers on   *)
(* the event loop (dunebugger_websocket.py, websocket_message_handler.py)  *)
(***************************************************************************)
\* the handler of this message reaches `await check_updates(force=force)`,
\* which waits for the releases of GitHub (handle_check_updates, line 156)
AwaitsCheckUpdates(m) ==
    /\ "subject" \in DOMAIN m
    /\ SourceOf(m) # "controller"
    /\ SplitSubject(m.subject).recipient \in {StrController, StrUpdater}
    /\ SplitSubject(m.subject).subject = StrCheckUpdates

\* the sends and publishes of one handler, tagged with its message
EffectsOf(i, r) ==
    [k \in 1..(Len(r.bus) + Len(r.cloud)) |->
        [of |-> i, kind |-> IF k <= Len(r.bus) THEN "bus" ELSE "cloud"]]

\* _on_message_received on the client's thread: handle_message(e.data) is
\* posted to the running event loop with run_coroutine_threadsafe
OnMessageReceived(m) ==
    /\ Len(received) < MaxIn
    /\ received' = Append(received, m)
    /\ handlerTasks' = Append(handlerTasks, Len(received) + 1)
    /\ handling' = Append(handling, "posted")
    /\ UNCHANGED <<effects, outbox, bus, heartbeat_event, countdown_event,
                   countdown_timer>>
    /\ UNCHANGED notRx

\* the event loop starts the handler posted first and runs it to its first
\* suspension or to its end: process_websocket_message up to the await of
\* check_updates, or all of it, handle_heartbeat included
HandleMessage ==
    /\ handlerTasks # <<>>
    /\ LET i == Head(handlerTasks)
           m == received[i]
           r == process_websocket_message(m)
       IN /\ handlerTasks' = Tail(handlerTasks)
          /\ IF AwaitsCheckUpdates(m)
             THEN /\ handling' = [handling EXCEPT ![i] = "awaiting"]
                  /\ UNCHANGED <<effects, outbox, bus, heartbeat_event,
                                 countdown_event, countdown_timer>>
             ELSE /\ handling' = [handling EXCEPT ![i] = "finished"]
                  /\ effects' = effects \o EffectsOf(i, r)
                  /\ outbox' = outbox \o r.cloud
                  /\ bus' = bus \o r.bus
                  /\ countdown_timer' = IF r.heartbeat
                                        THEN heart_beat_loop_duration_secs
                                        ELSE countdown_timer
                  /\ heartbeat_event' = (heartbeat_event \/ r.heartbeat)
                  /\ countdown_event' = (countdown_event \/ r.heartbeat)
    /\ UNCHANGED received
    /\ UNCHANGED notRx

\* check_updates returns to a suspended handler, which publishes the result
\* and ends (handle_check_updates, lines 158-173)
HandleMessageResume(i) ==
    /\ i \in DOMAIN handling
    /\ handling[i] = "awaiting"
    /\ LET r == process_websocket_message(received[i])
       IN /\ effects' = effects \o EffectsOf(i, r)
          /\ outbox' = outbox \o r.cloud
          /\ bus' = bus \o r.bus
    /\ handling' = [handling EXCEPT ![i] = "finished"]
    /\ UNCHANGED <<received, handlerTasks, heartbeat_event, countdown_event,
                   countdown_timer>>
    /\ UNCHANGED notRx

-----------------------------------------------------------------------------
(***************************************************************************)
(* main() (src/app/main.py): the wait for the shutdown signal and the      *)
(* teardown in its finally block.  The listener, the NTP monitor and the   *)
(* periodic check have been started.                                       *)
(***************************************************************************)
TeardownSteps == {"periodic_check", "ntp_monitor", "local_bus", "cloud_channel"}

\* signal_handler(signum, frame): shutdown_event.set()
SignalHandler ==
    /\ main_pc = "wait"
    /\ shutdown_event' = TRUE
    /\ UNCHANGED <<main_pc, periodic_check_task, listening, torn,
                   websocketEnabled, ntp_pc>>
    /\ UNCHANGED notMain

\* await shutdown_event.wait() returns and the finally block begins
MainWakes ==
    /\ main_pc = "wait"
    /\ shutdown_event
    /\ main_pc' = "stop_periodic_check"
    /\ UNCHANGED <<shutdown_event, periodic_check_task, listening, torn,
                   websocketEnabled, ntp_pc>>
    /\ UNCHANGED notMain

\* await component_updater.stop_periodic_check(): the task is cancelled and
\* awaited; its loop ends on the CancelledError
StopPeriodicCheck ==
    /\ main_pc = "stop_periodic_check"
    /\ periodic_check_task' = FALSE
    /\ torn' = torn \cup {"periodic_check"}
    /\ main_pc' = "stop_monitoring"
    /\ UNCHANGED <<shutdown_event, listening, websocketEnabled, ntp_pc>>
    /\ UNCHANGED notMain

\* await ntp_monitor.stop_monitoring(): the monitoring task is cancelled at
\* the await it is suspended in
StopMonitoring ==
    /\ main_pc = "stop_monitoring"
    /\ ntp_pc' = "cancelled"
    /\ torn' = torn \cup {"ntp_monitor"}
    /\ main_pc' = "close_listener"
    /\ UNCHANGED <<shutdown_event, periodic_check_task, listening,
                   websocketEnabled>>
    /\ UNCHANGED notMain

\* await mqueue.close_listener(): the listener is closed, or the call
\* raises and main() ends with that exception
CloseListener ==
    /\ main_pc = "close_listener"
    /\ \E ok \in BOOLEAN :
         IF ok
         THEN /\ listening' = FALSE
              /\ torn' = torn \cup {"local_bus"}
              /\ main_pc' = "close"
         ELSE /\ main_pc' = "raised"
              /\ UNCHANGED <<listening, torn>>
    /\ UNCHANGED <<shutdown_event, periodic_check_task, websocketEnabled, ntp_pc>>
    /\ UNCHANGED notMain

\* if settings.websocketEnabled is True: await websocket_client.close().
\* WebPubSubListener defines stop() and no close(): the call raises
\* AttributeError and the channel stays as it is
CloseChannel ==
    /\ main_pc = "close"
    /\ main_pc' = IF websocketEnabled THEN "raised" ELSE "returned"
    /\ UNCHANGED <<shutdown_event, periodic_check_task, listening, torn,
                   websocketEnabled, ntp_pc>>
    /\ UNCHANGED notMain

-----------------------------------------------------------------------------
(***************************************************************************)
(* stop() of the cloud channel, run by the thread that calls it            *)
(***************************************************************************)
\* stop(), lines 135-136, called once on a channel that has been started
StopBegin ==
    /\ stop_pc = "idle"
    /\ main_event_loop
    /\ should_be_connected' = FALSE
    /\ stop_event' = TRUE
    /\ stop_pc' = "remove_connected"
    /\ UNCHANGED <<monVars, pc, connection_retry_scheduled, main_event_loop,
                   client, loopQ, sleepers, retrySleeping, retryAwake, drops>>
    /\ UNCHANGED notStop

\* stop(), line 140: remove_connected_callback(self._on_internet_connected)
StopRemoveConnected ==
    /\ stop_pc = "remove_connected"
    /\ on_connected_callbacks' = IF InSeq(on_connected_callbacks, WS)
                                 THEN RemoveFirst(on_connected_callbacks, WS)
                                 ELSE on_connected_callbacks
    /\ stop_pc' = "remove_disconnected"
    /\ UNCHANGED <<is_connected, on_disconnected_callbacks, mval, mold, mcbs,
                   flips, passes, mchg, mdel, pc, chanVars, stop_event>>
    /\ UNCHANGED notStop

\* stop(), line 141: remove_disconnected_callback(self._on_internet_disconnected)
StopRemoveDisconnected ==
    /\ stop_pc = "remove_disconnected"
    /\ on_disconnected_callbacks' = IF InSeq(on_disconnected_callbacks, WS)
                                    THEN RemoveFirst(on_disconnected_callbacks, WS)
                                    ELSE on_disconnected_callbacks
    /\ stop_pc' = "close"
    /\ UNCHANGED <<is_connected, on_connected_callbacks, mval, mold, mcbs,
                   flips, passes, mchg, mdel, pc, chanVars, stop_event>>
    /\ UNCHANGED notStop

\* stop(), lines 145-146: self.client.close() when there is a client.  The
\* close of a connected client may raise its DISCONNECTED event, which runs
\* _handle_websocket_disconnection on the client's thread.
StopClose ==
    /\ stop_pc = "close"
    /\ client' = IF client = "none" THEN "none" ELSE "closed"
    /\ \E event \in BOOLEAN :
         IF event /\ ClientConnected /\ pc[WsThread] = "idle"
         THEN pc' = [pc EXCEPT ![WsThread] = "hook"]
         ELSE pc' = pc
    /\ stop_pc' = "returned"
    /\ UNCHANGED <<monVars, should_be_connected, connection_retry_scheduled,
                   main_event_loop, loopQ, sleepers, retrySleeping, retryAwake,
                   drops, stop_event>>
    /\ UNCHANGED notStop

-----------------------------------------------------------------------------
(***************************************************************************)
(* send_message of the cloud channel, run by the thread that calls it      *)
(***************************************************************************)
\* the subjects of the envelopes sent in the model
SendSubjects == {"heartbeat", "log"}

\* no call of send_message yet
NoSend == [at |-> "idle", subject |-> "none", connectivity |-> FALSE,
           connected |-> FALSE, broadcast |-> FALSE, sent |-> FALSE,
           caught |-> FALSE]

\* a gate that lets heartbeats through while broadcasting is disabled
Broadcasts_Heartbeats(subject) == broadcastEnabled \/ subject = "heartbeat"

\* line 315: self.broadcastEnabled is True, whatever the message
Broadcasts(subject) == broadcastEnabled

\* enable_broadcast() / disable_broadcast()
SetBroadcast(enabled) ==
    /\ broadcastEnabled # enabled
    /\ broadcastEnabled' = enabled
    /\ UNCHANGED <<sm, group_sends>>
    /\ UNCHANGED notSend

\* send_message, lines 309-311: return without a connection to the internet
SendMessageBegin(subject) ==
    /\ sm.at \in {"idle", "returned"}
    /\ group_sends < MaxSends
    /\ sm' = [NoSend EXCEPT !.subject = subject,
                            !.connectivity = get_connection_status,
                            !.at = IF get_connection_status
                                   THEN "client" ELSE "returned"]
    /\ UNCHANGED <<broadcastEnabled, group_sends>>
    /\ UNCHANGED notSend

\* send_message, line 313: self.client and self.client.is_connected(); the
\* else branch only logs
SendMessageCheckClient ==
    /\ sm.at = "client"
    /\ sm' = [sm EXCEPT !.connected = ClientConnected,
                        !.at = IF ClientConnected THEN "send" ELSE "returned"]
    /\ UNCHANGED <<broadcastEnabled, group_sends>>
    /\ UNCHANGED notSend

\* send_message, lines 314-325: send_to_group when broadcasting is enabled;
\* what send_to_group raises is caught and logged
SendMessageSend ==
    /\ sm.at = "send"
    /\ \E raises \in BOOLEAN :
         sm' = [sm EXCEPT !.broadcast = broadcastEnabled,
                          !.sent = Broadcasts(sm.subject),
                          !.caught = Broadcasts(sm.subject) /\ raises,
                          !.at = "returned"]
    /\ group_sends' = IF Broadcasts(sm.subject) THEN group_sends + 1
                      ELSE group_sends
    /\ UNCHANGED broadcastEnabled
    /\ UNCHANGED notSend

-----------------------------------------------------------------------------
InitBase ==
    /\ is_connected \in BOOLEAN
    /\ on_connected_callbacks = <<WS>>
    /\ on_disconnected_callbacks = <<WS>>
    /\ mval = [t \in MonThreads |-> FALSE]
    /\ mold = FALSE
    /\ mcbs = [t \in MonThreads |-> <<>>]
    /\ flips = 0
    /\ passes = 0
    /\ mchg = [t \in MonThreads |-> <<>>]
    /\ mdel = [t \in MonThreads |-> <<>>]
    /\ pc = [t \in Threads |-> "idle"]
    /\ should_be_connected = FALSE
    /\ connection_retry_scheduled = FALSE
    /\ main_event_loop = FALSE
    /\ client = "none"
    /\ loopQ = <<"start">>
    /\ sleepers = 0
    /\ retrySleeping = 0
    /\ retryAwake = 0
    /\ drops = 0
    /\ storm = FALSE
    /\ stormAttempts = 0
    /\ hookRetry = FALSE
    /\ cleanDrop = FALSE
    /\ installed = [k \in Keys |-> V100]
    /\ published = [k \in Keys |-> V100]
    /\ components = [k \in Keys |->
                        [current_version |-> installed[k], latest_version |-> None,
                         update_available |-> FALSE, last_checked |-> NoTime]]
    /\ now_h = 0
    /\ cu = [c \in Callers |-> [i |-> 0, force |-> FALSE]]
    /\ lastCall = NoCall
    /\ checks = 0
    /\ envSteps = 0
    /\ now_s = 0
    /\ health = [s \in HealthRecords |->
                    IF s = <<"updater", "remote">>
                    THEN [running |-> TRUE, latest_heartbeat |-> now_s,
                          heartbeat_ttl |-> RemoteTTL]
                    ELSE IF s \in UpdaterRecords
                    THEN [running |-> FALSE, latest_heartbeat |-> NoHeartbeat,
                          heartbeat_ttl |-> HeartbeatTTL]
                    ELSE [running |-> FALSE, latest_heartbeat |-> 0,
                          heartbeat_ttl |-> SystemInfoTTL]]
    /\ lastRead = NoRead
    /\ recorded = {<<"updater", "remote">>}
    /\ beats = 0
    /\ outbox = <<>>
    /\ bus = <<>>
    /\ inLog = <<>>
    /\ hh = "idle"
    /\ heartbeat_event = FALSE
    /\ countdown_event = FALSE
    /\ countdown_timer = 0
    /\ hbpc = "wait"
    /\ cdpc = "wait"
    /\ cdread = 0
    /\ quiet = FALSE
    /\ loopOut = 0
    /\ periods = 0
    /\ ntp_available = FALSE
    /\ previous_state = FALSE
    /\ current_state = FALSE
    /\ ntp_pc = "init"
    /\ cycles = 0
    /\ ntpMark = NoSends
    /\ received = <<>>
    /\ handlerTasks = <<>>
    /\ handling = <<>>
    /\ effects = <<>>
    /\ main_pc = "wait"
    /\ shutdown_event = FALSE
    /\ periodic_check_task = TRUE
    /\ listening = TRUE
    /\ torn = {}
    /\ stop_pc = "idle"
    /\ stop_event = FALSE
    /\ wss_url = "empty"
    /\ auth_failed = FALSE
    /\ broadcastEnabled = TRUE
    /\ sm = NoSend
    /\ group_sends = 0
    /\ mq_last = NoBusMessage
    /\ mq_handled = 0
    /\ probe_last = NoProbe
    /\ cul = NoTraces
    /\ chb_pc = "none"
    /\ chb_cycles = 0
    /\ chb_cur = NoCycle
    /\ chb_cancel = FALSE
    /\ pcl_task = 0
    /\ pcl_running = FALSE
    /\ pcl_loops = [id \in LoopIds |-> "unborn"]
    /\ pcl_cancel = {}
    /\ pcl_checks = 0
    /\ pcl_starts = 0
    /\ spc_pc = "idle"
    /\ pcl_fetch = 0
    /\ ntw_pc = "unconfigured"
    /\ ntw_interval = 0
    /\ ntw_now = 0
    /\ ntw_until = 0
    /\ ntw_probed = NoTime
    /\ ntw_gap = NoTime
    /\ ntw_err = FALSE

\* no version comparison has been asked for
VerIdle ==
    /\ ver_current = V100
    /\ ver_latest = V100
    /\ current_parsed = NotParsed
    /\ latest_parsed = NotParsed
    /\ ver_result = "pending"

\* the state after construction
Init ==
    /\ InitBase
    /\ VerIdle
    /\ websocketEnabled = TRUE

\* the cloud channel with the monitor thread
Next ==
    \/ CheckStatus(MonThread)
    \/ SetStatus(MonThread)
    \/ CopyCallbacks(MonThread)
    \/ CallNext(MonThread)
    \/ LoopPick
    \/ Start
    \/ StartCheck
    \/ AttemptBegin
    \/ AttemptOpen
    \/ AttemptJoin
    \/ AttemptFail
    \/ \E t \in Threads : ScheduleRetryRead(t)
    \/ \E t \in Threads : ScheduleRetrySet(t)
    \/ RetryWake
    \/ RetryCheck
    \/ ReconnectBegin
    \/ ReconnectSleepEnds
    \/ ReconnectWake
    \/ ReconnectCheckClient
    \/ Disconnect
    \/ HandleWebsocketDisconnection

Spec == Init /\ [][Next]_vars

\* the connectivity supervisor alone: the monitor thread, a caller of
\* force_check() and other parties adding and removing their callbacks
NextMon ==
    \/ \E t \in MonThreads : CheckStatus(t)
    \/ ReadOld(FcThread)
    \/ \E t \in MonThreads : SetStatus(t)
    \/ \E t \in MonThreads : CopyCallbacks(t)
    \/ \E t \in MonThreads : CallNext(t)
    \/ \E dir \in BOOLEAN, s \in OtherSubs : AddCallback(dir, s)
    \/ \E dir \in BOOLEAN, s \in OtherSubs : RemoveCallback(dir, s)

SpecMon == Init /\ [][NextMon]_vars

\* the monitor loop and a caller of force_check probe the connection and
\* notify the subscribers
NextProbe ==
    \/ \E t \in MonThreads, dns \in DnsOutcomes, http \in HttpOutcomes :
            CheckConnection(t, dns, http)
    \/ ReadOld(FcThread)
    \/ \E t \in MonThreads : SetStatus(t)
    \/ \E t \in MonThreads : CopyCallbacks(t)
    \/ \E t \in MonThreads : CallNext(t)

SpecProbe == Init /\ [][NextProbe]_vars

\* the component updater: update checks, update requests, manual version
\* settings, and the environment's installs, releases and clock
NextUpd ==
    \/ \E c \in Callers, force \in BOOLEAN : CheckUpdates(c, force)
    \/ \E c \in Callers : FetchReturns(c)
    \/ \E c \in Callers : CheckUpdatesReturn(c)
    \/ \E k \in Keys \cup {"bogus"} : UpdateComponent(k)
    \/ PerformUpdateDone
    \/ \E k \in Keys \cup {"bogus"}, v \in Versions : SetComponentVersion(k, v)
    \/ \E k \in Keys, v \in Versions : Install(k, v)
    \/ \E k \in Keys, v \in Versions : Publish(k, v)
    \/ Tick

\* the updater does not read the connectivity flag
InitUpd == Init /\ ~is_connected

SpecUpd == InitUpd /\ [][NextUpd]_vars

\* the updater as the cloud's requests drive it: handle_check_updates and
\* handle_perform_update, with the environment's installs, releases and clock
NextReq ==
    \/ \E force \in BOOLEAN : CheckUpdates("request", force)
    \/ FetchReturns("request")
    \/ CheckUpdatesReturn("request")
    \/ \E k \in Keys \cup {"bogus"} : UpdateComponent(k)
    \/ PerformUpdateDone
    \/ \E k \in Keys, v \in Versions : Install(k, v)
    \/ \E k \in Keys, v \in Versions : Publish(k, v)
    \/ Tick

SpecReq == InitUpd /\ [][NextReq]_vars

\* check_updates called for the cloud's request, forced or not, with the
\* history of each call, while releases are published and time passes
NextChk ==
    \/ \E force \in BOOLEAN : CheckUpdatesTraced("request", force)
    \/ FetchReturnsTraced("request")
    \/ CheckUpdatesReturn("request")
    \/ \E k \in Keys, v \in Versions : Publish(k, v)
    \/ Tick

SpecChk == InitUpd /\ [][NextChk]_vars

\* the health records: heartbeats, readers and the clock
NextHealth ==
    \/ \E k \in Keys : SetComponentRunning(k)
    \/ \E k \in Keys : GetComponentRunning(k)
    \/ \E c \in {"core", "scheduler"} : SetHeartbeatAlive(c)
    \/ \E c \in {"core", "scheduler"} : IsHeartbeatAlive(c)
    \/ ReadDone
    \/ \E d \in {22, 23} : Advance(d)

SpecHealth == InitUpd /\ [][NextHealth]_vars

\* process_mqueue_message for a message with subject heartbeat from the
\* core or the scheduler: set_heartbeat_core_alive or
\* set_heartbeat_scheduler_alive of the system info model is called, and
\* nothing else
ProcessMqueueHeartbeat(source) ==
    /\ source \in HeartbeatSources
    /\ SetHeartbeatAlive(source)

\* get_components_info: the "running" entry of one component, read with
\* get_component_running
GetComponentsInfo(k) ==
    /\ k \in Keys
    /\ GetComponentRunning(k)

\* the local bus delivers heartbeats while the component information and
\* the system information are read; set_component_running has no caller
NextBus ==
    \/ \E source \in HeartbeatSources : ProcessMqueueHeartbeat(source)
    \/ \E k \in Keys : GetComponentsInfo(k)
    \/ \E c \in HeartbeatSources : IsHeartbeatAlive(c)
    \/ ReadDone
    \/ \E d \in {22, 23} : Advance(d)

SpecBus == InitUpd /\ [][NextBus]_vars

\* the local bus delivers messages to process_mqueue_message as time passes
NextMq ==
    \/ \E m \in BusMessages : ProcessMqueueMessage(m)
    \/ \E d \in {22, 23} : Advance(d)

SpecMq == InitUpd /\ [][NextMq]_vars

\* the components heartbeat task from its start to its cancellation
NextChb ==
    \/ StartComponentsHeartbeat
    \/ HeartbeatSleepEnds
    \/ \E ok \in BOOLEAN : HeartbeatSendCore(ok)
    \/ \E ok \in BOOLEAN : HeartbeatSendScheduler(ok)
    \/ CancelHeartbeatTask
    \/ HeartbeatCancelled

SpecChb == InitUpd /\ [][NextChb]_vars

\* the periodic check task, its starts and its stop
NextPcl ==
    \/ StartPeriodicCheck
    \/ \E id \in LoopIds : PeriodicLoopBegins(id)
    \/ \E id \in LoopIds : PeriodicFetchReturns(id)
    \/ \E id \in LoopIds, ok \in BOOLEAN : PeriodicCheckDone(id, ok)
    \/ \E id \in LoopIds : PeriodicSleepEnds(id)
    \/ \E id \in LoopIds : PeriodicCancelled(id)
    \/ StopPeriodicCheckCalled
    \/ StopPeriodicCheckReturns

SpecPcl == InitUpd /\ [][NextPcl]_vars

\* the NTP monitoring loop with its waits timed
NextNtw ==
    \/ \E v \in NtpIntervals : NtpIntervalConfigured(v)
    \/ NtpClockTick
    \/ NtpFirstCheck
    \/ \E ok \in BOOLEAN : NtpTimedProbe(ok)
    \/ NtpErrorSleepEnds

SpecNtw == InitUpd /\ [][NextNtw]_vars

\* the senders of the routing layer
NextMsg ==
    \/ \E subject \in Subjects, id \in ConnectionIds : DispatchMessage(subject, id)
    \/ SendAlive
    \/ SendLog
    \/ SendSystemInfo
    \/ SendNtpStatus

SpecMsg == InitUpd /\ [][NextMsg]_vars

\* the routing of inbound cloud messages with the alive loop and the
\* countdown loop
NextRoute ==
    \/ \E m \in InMessages : ProcessWebsocketMessage(m)
    \/ HandleHeartbeatReset
    \/ HandleHeartbeatSetHeartbeat
    \/ HandleHeartbeatSetCountdown
    \/ SendHeartbeatWake
    \/ SendHeartbeatSend
    \/ SendHeartbeatSleepEnds
    \/ CountdownWake
    \/ CountdownTest
    \/ CountdownLoad
    \/ CountdownStore
    \/ CountdownQuery
    \/ CountdownClearHeartbeat
    \/ CountdownClearCountdown

SpecRoute == InitUpd /\ [][NextRoute]_vars

\* the NTP monitor with the two requests for the NTP status
NextNtp ==
    \/ \E probe \in BOOLEAN : NtpInitialCheck(probe)
    \/ \E probe \in BOOLEAN : NtpProbe(probe)
    \/ NtpSendStatus
    \/ NtpNotifyScheduler
    \/ NtpCycleEnd
    \/ NtpStatusRequest
    \/ SendNtpStatusToScheduler

SpecNtp == InitUpd /\ [][NextNtp]_vars

\* _compare_versions on every pair of the version strings
InitVer ==
    /\ InitBase
    /\ ~is_connected
    /\ websocketEnabled = TRUE
    /\ ver_current \in VersionStrings
    /\ ver_latest \in VersionStrings
    /\ current_parsed = NotParsed
    /\ latest_parsed = NotParsed
    /\ ver_result = "pending"

NextVer ==
    \/ CompareParse
    \/ CompareReturn

SpecVer == InitVer /\ [][NextVer]_vars

\* the client's thread receiving and the event loop handling
NextRx ==
    \/ \E m \in InMessages : OnMessageReceived(m)
    \/ HandleMessage
    \/ \E i \in 1..MaxIn : HandleMessageResume(i)

SpecRx == InitUpd /\ [][NextRx]_vars

\* main() beside the NTP monitor it has started
InitMain ==
    /\ InitBase
    /\ ~is_connected
    /\ VerIdle
    /\ websocketEnabled \in BOOLEAN

NextMain ==
    \/ \E probe \in BOOLEAN : NtpInitialCheck(probe)
    \/ \E probe \in BOOLEAN : NtpProbe(probe)
    \/ NtpSendStatus
    \/ NtpNotifyScheduler
    \/ NtpCycleEnd
    \/ SignalHandler
    \/ MainWakes
    \/ StopPeriodicCheck
    \/ StopMonitoring
    \/ CloseListener
    \/ CloseChannel

SpecMain == InitMain /\ [][NextMain]_vars

\* the cloud channel, the monitor thread, another party's subscriber and a
\* caller of stop()
NextStop ==
    \/ Next
    \/ StopBegin
    \/ StopRemoveConnected
    \/ StopRemoveDisconnected
    \/ StopClose

SpecStop == Init /\ [][NextStop]_vars

\* the monitor thread, the subscribers of other parties, the channel up to
\* the sleeps of its retry thread and of its reconnections, and a caller
\* of stop()
NextSubs ==
    \/ CheckStatus(MonThread)
    \/ SetStatus(MonThread)
    \/ CopyCallbacks(MonThread)
    \/ CallNext(MonThread)
    \/ \E dir \in BOOLEAN, s \in OtherSubs : AddCallback(dir, s)
    \/ LoopPick
    \/ Start
    \/ StartCheck
    \/ AttemptBegin
    \/ AttemptOpen
    \/ AttemptJoin
    \/ AttemptFail
    \/ ScheduleRetryRead(LoopThread)
    \/ ScheduleRetrySet(LoopThread)
    \/ ReconnectBegin
    \/ StopBegin
    \/ StopRemoveConnected
    \/ StopRemoveDisconnected
    \/ StopClose

SpecSubs == InitUpd /\ [][NextSubs]_vars

\* callers of send_message and of the broadcast switch beside the monitor
\* thread and the channel's connection attempts
NextSend ==
    \/ CheckStatus(MonThread)
    \/ SetStatus(MonThread)
    \/ CopyCallbacks(MonThread)
    \/ CallNext(MonThread)
    \/ LoopPick
    \/ Start
    \/ StartCheck
    \/ AttemptBegin
    \/ AttemptOpen
    \/ AttemptJoin
    \/ AttemptFail
    \/ ScheduleRetryRead(LoopThread)
    \/ ScheduleRetrySet(LoopThread)
    \/ ReconnectBegin
    \/ \E enabled \in BOOLEAN : SetBroadcast(enabled)
    \/ \E subject \in SendSubjects : SendMessageBegin(subject)
    \/ SendMessageCheckClient
    \/ SendMessageSend

SpecSend == InitUpd /\ [][NextSend]_vars


-----------------------------------------------------------------------------
(***************************************************************************)
(* Claims about the cloud channel                                          *)
(***************************************************************************)
\* the running task executes client.open() or client.join_group()
SocketIO ==
    /\ pc[LoopThread] \in {"att_open", "att_join"}
    /\ pc'[LoopThread] # pc[LoopThread]

\* C1: the cloud channel opens its socket (client.open / join_group inside
\* _attempt_connection) only while the connectivity flag is true, on every
\* path and under every interleaving with connectivity transitions; and
\* start() called while the flag is false sets should_be_connected and
\* returns without socket I/O.
C1_OpensOnlyWhileConnected ==
    /\ [][SocketIO => is_connected]_vars
    /\ [][(pc[LoopThread] = "start_chk" /\ ~is_connected /\ pc'[LoopThread] # "start_chk")
            => (pc'[LoopThread] = "idle" /\ client' = client /\ should_be_connected)]_vars


\* C2: at most one reconnection retry is scheduled at any instant: under
\* any interleaving of the callers of _schedule_connection_retry there is
\* never more than one retry thread sleeping before its attempt.
C2_AtMostOneRetryScheduled == retrySleeping <= 1

\* executions of _attempt_connection between their start and their return:
\* the one the event loop is running and those suspended inside it
AttemptsInFlight ==
    (IF pc[LoopThread] \in InAttempt THEN 1 ELSE 0)
    + Cardinality({i \in DOMAIN loopQ : loopQ[i] \in InAttempt \ {"att_begin"}})

\* C3: at most one connection attempt is in flight at any instant: no two
\* executions of _attempt_connection overlap, whoever started them.
C3_AtMostOneAttemptInFlight == AttemptsInFlight <= 1

\* C3 witness: an attempt handed over by a retry thread is running while
\* another one, from a further retry or a reconnection, waits for the loop
C3_Witness ==
    /\ pc[LoopThread] \in {"att_open", "att_join"}
    /\ \E i \in DOMAIN loopQ : loopQ[i] \in {"att_begin", "rc_wake"}


\* the scheduling the code relies on: threads run, sleeps end, blocking
\* calls return and the event loop runs its ready tasks; the probes'
\* results and the connection drops are the environment's
Fairness ==
    /\ WF_vars(SetStatus(MonThread))
    /\ WF_vars(CopyCallbacks(MonThread))
    /\ WF_vars(CallNext(MonThread))
    /\ WF_vars(LoopPick)
    /\ WF_vars(Start)
    /\ WF_vars(StartCheck)
    /\ WF_vars(AttemptBegin)
    /\ WF_vars(AttemptOpen)
    /\ WF_vars(AttemptJoin)
    /\ WF_vars(AttemptFail)
    /\ \A t \in Threads : WF_vars(ScheduleRetryRead(t))
    /\ \A t \in Threads : WF_vars(ScheduleRetrySet(t))
    /\ WF_vars(RetryWake)
    /\ WF_vars(RetryCheck)
    /\ WF_vars(ReconnectBegin)
    /\ WF_vars(ReconnectSleepEnds)
    /\ WF_vars(ReconnectWake)
    /\ WF_vars(ReconnectCheckClient)
    /\ WF_vars(HandleWebsocketDisconnection)

FairSpec == Spec /\ Fairness

Joined == client = "joined"

\* start() or an execution of _attempt_connection is running or queued
AttemptPending ==
    \/ pc[LoopThread] \in InAttempt \cup {"start", "start_chk"}
    \/ InSeq(loopQ, "att_begin") \/ InSeq(loopQ, "start")

\* a retry thread exists, or a caller is inside _schedule_connection_retry,
\* or the disconnection hook is about to run
RetryPending ==
    \/ retrySleeping > 0 \/ retryAwake > 0
    \/ \E t \in Threads : pc[t] \in {"sched_read", "sched_set"}
    \/ pc[WsThread] = "hook"

\* the connected notification is being delivered, or a reconnection
\* coroutine is queued, sleeping or running
ReconnectionPending ==
    \/ \E t \in MonThreads : pc[t] \in {"notify", "calling"} /\ mval[t]
    \/ InSeq(loopQ, "rc_begin") \/ InSeq(loopQ, "rc_wake")
    \/ sleepers > 0
    \/ pc[LoopThread] \in {"rc_begin", "rc_wake", "rc_chk"}

WantsConnection == should_be_connected /\ is_connected /\ ~Joined

NeverSuspended ==
    WantsConnection => (AttemptPending \/ RetryPending \/ ReconnectionPending)

-----------------------------------------------------------------------------
(***************************************************************************)
(* Claims about the connectivity supervisor                                *)
(***************************************************************************)
\* C8: for every change of the connectivity flag each registered subscriber
\* of that direction is invoked exactly once, in registration order, and no
\* subscriber is invoked when the flag did not change, for any interleaving
\* of the monitor loop with force_check() and with add/remove of subscribers:
\* there are never more notification passes than changes of the flag, every
\* change has had its pass once the threads are idle, and a pass invokes the
\* registered callbacks once each, in order.
C8_SubscribersOncePerChange ==
    /\ passes <= flips
    /\ (\A t \in MonThreads : pc[t] = "idle") => passes = flips
    /\ \A t \in MonThreads :
         /\ pc[t] = "calling" => mdel[t] \o mcbs[t] = mchg[t]
         /\ pc[t] = "idle" => mdel[t] = mchg[t]


-----------------------------------------------------------------------------
(***************************************************************************)
(* Claims about the component updater                                      *)
(***************************************************************************)
\* the call returned the refusal of the update order that tells the caller
\* to update component x first
RefusedBefore(call, x) ==
    /\ ~call.raised
    /\ call.value.success = FALSE
    /\ "level" \in DOMAIN call.value
    /\ call.value.level = "error"
    /\ Len(call.value.message) = 5
    /\ call.value.message[1] = "Cannot update "
    /\ call.value.message[2] = call.key
    /\ call.value.message[4] = x

\* the call was refused by the order check, whatever the component named
RefusedByOrder(call) ==
    /\ ~call.raised
    /\ Len(call.value.message) = 5
    /\ call.value.message[1] = "Cannot update "

\* update_component ran in this step
UpdateCalled == lastCall = NoCall /\ lastCall' # NoCall

FlagAgrees(k) ==
    components[k].update_available
        <=> (/\ components[k].latest_version # None
             /\ _compare_versions(components[k].current_version,
                                  components[k].latest_version))

\* C6: when check_updates(force) returns, every component's update_available
\* is true exactly when its current version is lower than its latest version,
\* also for the components it skipped and for those whose query failed after
\* their current version was refreshed.
C6_FlagsAgreeWhenCheckReturns ==
    (\E c \in Callers : cu[c].i = Returned) => \A k \in Keys : FlagAgrees(k)

\* C7: in every reachable state, after any sequence of check_updates,
\* update_component, set_component_version and version refreshes, every
\* component's update_available is true exactly when latest_version is set
\* and greater than current_version.
C7_FlagsAlwaysAgree == \A k \in Keys : FlagAgrees(k)


-----------------------------------------------------------------------------
-----------------------------------------------------------------------------
(***************************************************************************)
(* Claims about the envelopes                                              *)
(***************************************************************************)
\* C10: every envelope the routing layer hands to the cloud channel
\* (dispatch_message, the alive message, send_log, send_system_info,
\* send_ntp_status, update results) has source "controller" and carries a
\* destination field, which is "broadcast" unless a connection id was
\* supplied.
C10_EnvelopesAddressed ==
    \A i \in DOMAIN outbox :
        LET e == outbox[i].envelope
        IN /\ "source" \in DOMAIN e
           /\ e.source = "controller"
           /\ "destination" \in DOMAIN e
           /\ e.destination = IF outbox[i].supplied = Unsupplied
                              THEN "broadcast" ELSE outbox[i].supplied

-----------------------------------------------------------------------------
\* The inbound message the event loop has just handled, in a step that
\* handles one
Handled == inLog'[Len(inLog')]
HandlesOne == Len(inLog') = Len(inLog) + 1

\* The recipient a subject names: the text before its first dot
NamedRecipient(m) ==
    IF "subject" \in DOMAIN m /\ Find(m.subject, <<".">>) > 0
    THEN BeforeFirst(m.subject, <<".">>) ELSE None
AfterFirstDot(m) ==
    SubSeq(m.subject, Find(m.subject, <<".">>) + 1, Len(m.subject))
ForBus(m) == NamedRecipient(m) \in {StrCore, StrScheduler}
Unrouted(m) ==
    NamedRecipient(m) \notin {StrCore, StrScheduler, StrController, StrUpdater}
PublishedOnce(m) ==
    bus' = Append(bus, [recipient |-> NamedRecipient(m),
                        message |-> [m EXCEPT !.subject = AfterFirstDot(m)]])

\* C11 as stated: an inbound cloud message is published to the local bus
\* iff its subject is <recipient>.<subject> with recipient core or scheduler,
\* then exactly once, to that recipient, with the subject rewritten to the
\* part after the first dot; a message with no recipient or an unknown one
\* causes no local-bus publish and no cloud publish.
C11_PublishedIffAddressed ==
    [][HandlesOne =>
          /\ IF ForBus(Handled) THEN PublishedOnce(Handled) ELSE bus' = bus
          /\ Unrouted(Handled) => (bus' = bus /\ outbox' = outbox)]_vars

\* C11 amended: the same, for the messages whose source is not the
\* controller itself; the controller's own echo is never published.
C11_PublishedIffAddressedToOther ==
    [][HandlesOne =>
          /\ IF ForBus(Handled) /\ SourceOf(Handled) # "controller"
             THEN PublishedOnce(Handled) ELSE bus' = bus
          /\ Unrouted(Handled) => (bus' = bus /\ outbox' = outbox)]_vars

\* a client's message for core.a.b has been published to core as a.b
C11_Witness ==
    /\ Len(inLog) = 1 /\ Len(bus) = 1
    /\ inLog[1] = [subject |-> Dotted(StrCore, <<"a", ".", "b">>),
                   source |-> "client"]
    /\ bus[1] = [recipient |-> StrCore,
                 message |-> [subject |-> <<"a", ".", "b">>, source |-> "client"]]

-----------------------------------------------------------------------------
\* C12: after a reconnect storm (connectivity true, false, true, the second
\* restoration notified before the reconnection of the first has acted, the
\* connection not dropping since) at most one connection attempt is made,
\* and once it is over no retry is left scheduled: the flag is false and no
\* retry thread is pending.
C12_StormOneAttempt ==
    (storm /\ drops = 0) =>
        /\ stormAttempts <= 1
        /\ (stormAttempts = 1 /\ pc[LoopThread] \notin InAttempt) =>
               (~connection_retry_scheduled /\ retrySleeping = 0
                    /\ retryAwake = 0)

\* a reconnection coroutine that the subscriber scheduled is queued,
\* asleep or running
RestoredReconnection ==
    \/ sleepers > 0
    \/ InSeq(loopQ, "rc_begin") \/ InSeq(loopQ, "rc_wake")
    \/ pc[LoopThread] \in {"rc_begin", "rc_wake", "rc_chk"}

\* C13: for one disconnection (nothing pending when the connection
\* dropped), a delayed retry of the disconnection hook is never pending
\* while a connectivity-restored reconnection is pending or running.
C13_OneMechanism ==
    ~(cleanDrop /\ hookRetry /\ retrySleeping + retryAwake > 0
        /\ RestoredReconnection)

-----------------------------------------------------------------------------
\* update_component(key) passes its checks: the key is known, the order
\* requirement is met and an update is available
Permitted(key) ==
    /\ key \in Keys
    /\ _verify_update_order_requirement(key).success
    /\ components[key].update_available

C15_OneRequestFile ==
    [][(UpdateCalled /\ Permitted(lastCall'.key)) =>
          /\ lastCall'.request_files = 1
          /\ ~lastCall'.raised
          /\ installed' = installed]_vars

\* C16: every outcome of update_component reaches the caller as a record
\* with the three fields success, message and level; update_component never
\* raises.
C16_StructuredOutcome ==
    lastCall # NoCall =>
        /\ ~lastCall.raised
        /\ {"success", "message", "level"} \subseteq DOMAIN lastCall.value

-----------------------------------------------------------------------------
\* a cloud client's request to the controller or the updater with the
\* given subject
IsRequest(m, subject) ==
    /\ SourceOf(m) # "controller"
    /\ NamedRecipient(m) \in {StrController, StrUpdater}
    /\ AfterFirstDot(m) = subject
Requests(subject) ==
    Cardinality({i \in DOMAIN inLog : IsRequest(inLog[i], subject)})
AliveEnvelope == [envelope |-> alive_message, supplied |-> Unsupplied]
Published(body, subject) ==
    Cardinality({i \in DOMAIN outbox :
                    /\ outbox[i].envelope.body = body
                    /\ outbox[i].envelope.subject = subject})

\* C17: handling a cloud heartbeat request publishes an "I am alive"
\* envelope, and when handle_heartbeat returns both events are set and the
\* countdown is heart_beat_loop_duration_secs, whatever the state before.
C17_HeartbeatArmsLoops ==
    [][/\ (HandlesOne /\ IsRequest(Handled, StrHeartbeat)) =>
             outbox' = Append(outbox, AliveEnvelope)
       /\ (hh = "set_countdown" /\ hh' = "idle") =>
             /\ heartbeat_event' /\ countdown_event'
             /\ countdown_timer' = heart_beat_loop_duration_secs]_vars

\* C18: the countdown at zero emits one query and disarms both loops;
\* from then until the next cloud heartbeat the loops emit nothing, neither
\* a query nor an "I am alive" heartbeat.
C18_LoopsQuietOnceDisarmed ==
    [][/\ (cdpc = "query" /\ cdpc' # "query") =>
             /\ Published("Is anyone there?", "heartbeat")'
                   = Published("Is anyone there?", "heartbeat") + 1
             /\ loopOut' = loopOut + 1
       /\ quiet => loopOut' = loopOut]_vars

\* C19: every triggering event results in exactly one publish of its
\* envelope: an "I am alive" for each heartbeat request and for each period
\* of the alive loop that has elapsed, a system_info and an ntp_status
\* envelope for each request of one, and none twice.
C19_OnePublishPerEvent ==
    /\ Published("I am alive", "heartbeat") >= Requests(StrHeartbeat)
    /\ Published("I am alive", "heartbeat") <= Requests(StrHeartbeat) + periods
    /\ Published("body", "system_info") = Requests(StrSystemInfo)
    /\ Published("body", "ntp_status") = Requests(StrNtpStatus)

-----------------------------------------------------------------------------
\* what the NTP monitor has handed over since its current cycle began
NtpCloudSent == SubSeq(outbox, ntpMark.cloud + 1, Len(outbox))
NtpBusSent == SubSeq(bus, ntpMark.bus + 1, Len(bus))

\* C20: when a monitoring cycle has done its notifications, the model holds
\* the probed value; if that value differs from the previous cycle's, the
\* monitor has sent exactly one ntp_status envelope on the cloud channel and
\* exactly one to the scheduler on the local bus, both carrying the value;
\* if it is the same, the monitor has sent nothing to either.
C20_NotifiesIffChanged ==
    ntp_pc = "end" =>
        /\ ntp_available = current_state
        /\ IF current_state # previous_state
           THEN /\ NtpCloudSent =
                      <<[envelope |->
                            dispatch_message([ntp_available |-> current_state],
                                             "ntp_status", Unsupplied),
                         supplied |-> Unsupplied]>>
                /\ NtpBusSent =
                      <<mqueue_dispatch_message(
                            [ntp_available |-> current_state], StrNtpStatus,
                            StrScheduler)>>
           ELSE NtpCloudSent = <<>> /\ NtpBusSent = <<>>

\* a cycle that found NTP available after a cycle that did not has sent its
\* two notifications
C20_Witness ==
    /\ ntp_pc = "end" /\ cycles > 1
    /\ current_state /\ ~previous_state
    /\ Len(NtpCloudSent) = 1 /\ Len(NtpBusSent) = 1

-----------------------------------------------------------------------------
\* a < b on the tuples parse_semver returns
ParsedLess(a, b) == TupleGreater(b, a)

BothParsed == current_parsed # NotParsed

\* the chain of the claim, in ascending order
VersionChain == <<PreVersion(V100, StrBeta, 2), PreVersion(V100, StrBeta, 3),
                  V100, V101>>

\* C23: comparing parse_semver results is a total order: exactly one of
\* <, = and > holds of two results and < is transitive; a lower base
\* version precedes a higher one, a prerelease precedes the release of its
\* base, prereleases of one base and name are ordered by their number, and
\* 1.0.0-beta.2 < 1.0.0-beta.3 < 1.0.0 < 1.0.1 is what _compare_versions
\* reports.
C23_TotalOrder ==
    BothParsed =>
        LET a == current_parsed
            b == latest_parsed
        IN /\ \/ ParsedLess(a, b) /\ a # b /\ ~ParsedLess(b, a)
              \/ ~ParsedLess(a, b) /\ a = b /\ ~ParsedLess(b, a)
              \/ ~ParsedLess(a, b) /\ a # b /\ ParsedLess(b, a)
           /\ \A v \in VersionStrings :
                 ParsedLess(a, b) /\ ParsedLess(b, parse_semver(v))
                     => ParsedLess(a, parse_semver(v))
           /\ IntTupleLess(a.base_parts, b.base_parts) => ParsedLess(a, b)
           /\ a.base_parts = b.base_parts /\ a.is_release = 0 /\ b.is_release = 1
                 => ParsedLess(a, b)
           /\ \A base \in PreBases, nm \in PreNames, i, j \in PreNumbers :
                 /\ ver_current = PreVersion(base, nm, i)
                 /\ ver_latest = PreVersion(base, nm, j)
                 => (ParsedLess(a, b) <=> i < j)
           /\ \A i, j \in DOMAIN VersionChain :
                 /\ ver_current = VersionChain[i]
                 /\ ver_latest = VersionChain[j]
                 /\ ver_result # "pending"
                 => (ver_result = "True" <=> i < j)

\* the two betas of the claim have been compared
C23_Witness ==
    /\ ver_current = PreVersion(V100, StrBeta, 2)
    /\ ver_latest = PreVersion(V100, StrBeta, 3)
    /\ ParsedLess(current_parsed, latest_parsed)
    /\ ver_result = "True"

\* C24: two version strings that differ only by a trailing .dev* or
\* .dirty* suffix parse to equal values, and neither is reported as an
\* update of the other.
C24_DevSuffixIgnored ==
    \A s \in DevSuffixes :
        /\ BothParsed
        /\ ver_current = ver_latest \o s \/ ver_latest = ver_current \o s
        => /\ current_parsed = latest_parsed
           /\ ver_result # "True"

-----------------------------------------------------------------------------
\* C21: inbound cloud messages are handled one after the other in receive
\* order: the handler of a later message has not started, and has made no
\* local-bus send and no cloud publish, unless the handler of every earlier
\* message has finished.
C21_HandledInSeries ==
    \A i, j \in DOMAIN received :
        i < j =>
            /\ handling[j] # "posted" => handling[i] = "finished"
            /\ (\E k \in DOMAIN effects : effects[k].of = j)
                  => handling[i] = "finished"

-----------------------------------------------------------------------------
\* main() has left its finally block, by returning or with an exception
MainEnded == main_pc \in {"returned", "raised"}

\* the teardown steps the configuration calls for
StepsDue ==
    IF websocketEnabled THEN TeardownSteps ELSE TeardownSteps \ {"cloud_channel"}

\* C22: on a shutdown signal every teardown step is carried out (the
\* periodic check and the NTP monitor cancelled, the local bus stopped, the
\* cloud channel closed), also when an earlier step fails.
C22_EveryTeardownStep == MainEnded => StepsDue \subseteq torn

-----------------------------------------------------------------------------
\* C27: a session that is Joined is never torn down by the reconnection
\* machinery: _attempt_connection, which closes the existing client, never
\* begins while the client is joined, whatever the order of a delayed
\* retry and a reconnection after restored connectivity.
C27_JoinedNotTornDown ==
    pc[LoopThread] = "att_begin" => client # "joined"

-----------------------------------------------------------------------------
\* C25: after stop() no connection attempt opens the socket any more: a
\* pending retry thread, a reconnection inside its stabilization delay and
\* an _attempt_connection queued on the event loop all end without opening
\* or joining a client.
C25_NoOpenAfterStop ==
    [][stop_pc = "returned" /\ client' \in {"open", "joined"}
          => client' = client]_vars

-----------------------------------------------------------------------------
\* the subscribers of other parties in a callback list, in their order
OthersIn(list) == SelectSeq(list, LAMBDA s : s # WS)

\* the caller of stop() takes a step
StopSteps == stop_pc' # stop_pc

\* C26: stop() sets should_be_connected to false, removes the channel's
\* connected and disconnected subscribers from the monitor and closes the
\* client; a notification pass that begins after stop() has returned calls
\* no callback of the channel; the subscribers of other parties stay
\* registered, in their order.
C26_StopEffect ==
    /\ [](stop_pc # "idle" => ~should_be_connected)
    /\ [](stop_pc \in {"close", "returned"}
             => /\ ~InSeq(on_connected_callbacks, WS)
                /\ ~InSeq(on_disconnected_callbacks, WS))
    /\ [][/\ stop_pc = "close" /\ StopSteps => client' \in {"none", "closed"}
          /\ StopSteps
                => /\ OthersIn(on_connected_callbacks')
                         = OthersIn(on_connected_callbacks)
                   /\ OthersIn(on_disconnected_callbacks')
                         = OthersIn(on_disconnected_callbacks)
          /\ stop_pc = "returned"
                => \A t \in MonThreads :
                      pc[t] = "notify" /\ pc'[t] = "calling"
                          => ~InSeq(mcbs'[t], WS)]_vars

\* stop() has returned on a connected channel and a notification pass begun
\* after it calls the subscriber of another party
C26_Witness ==
    /\ stop_pc = "returned"
    /\ client = "closed"
    /\ pc[MonThread] = "calling"
    /\ mval[MonThread]
    /\ mcbs[MonThread] # <<>>
    /\ mchg[MonThread] = on_connected_callbacks
    /\ InSeq(on_connected_callbacks, "s1")
    /\ InSeq(on_disconnected_callbacks, "s2")

-----------------------------------------------------------------------------
\* C28: when the auth capability fails during a connection attempt (no
\* access token, or fields missing in the response), that attempt does not
\* go on to open the WebSocket, and the channel is left disconnected.
C28_AuthFailureEndsAttempt ==
    auth_failed =>
        /\ pc[LoopThread] \notin {"att_open", "att_join"}
        /\ ~ClientConnected

-----------------------------------------------------------------------------
-----------------------------------------------------------------------------
(***************************************************************************)
(* Claims about the heartbeats of the local bus                            *)
(***************************************************************************)
\* C30: once a heartbeat of the local bus from the core or the scheduler has
\* been processed, a get_components_info read made within the TTL of that
\* heartbeat reports running = true for that component, the component's
\* record of the updater being running with the heartbeat's time.
C30_BusHeartbeatMarksRunning ==
    \A c \in HeartbeatSources :
        (/\ <<"system_info", c>> \in recorded
         /\ now_s - health[<<"system_info", c>>].latest_heartbeat
                <= health[<<"updater", c>>].heartbeat_ttl
         /\ lastRead # NoRead
         /\ lastRead.store = <<"updater", c>>)
            => /\ lastRead.value
               /\ health[<<"updater", c>>].latest_heartbeat
                    = health[<<"system_info", c>>].latest_heartbeat

-----------------------------------------------------------------------------
(***************************************************************************)
(* Claims about the handler of the local bus                               *)
(***************************************************************************)
\* a message the handler has to drop: its payload is not JSON, its subject
\* has fewer than three dotted segments, or its third segment is a subject
\* the handler does not know
KnownBusSubjects ==
    {StrHeartbeat, StrGetNtpStatus, StrGetVersion} \cup ForwardedSubjects
ToBeDropped(m) ==
    \/ ~m.data.json
    \/ Len(Split(m.subject, <<".">>)) < 3
    \/ Split(m.subject, <<".">>)[3] \notin KnownBusSubjects

\* C31: process_mqueue_message never raises, whatever the message; and a
\* message whose payload is not JSON, whose subject has fewer than three
\* segments or whose subject is unknown is dropped: handling it publishes
\* nothing to the cloud and sends nothing on the local bus.
C31_BusHandlerNeverRaises ==
    [][mq_handled' # mq_handled =>
          /\ mq_last'.outcome = "returned"
          /\ ToBeDropped(mq_last'.message) => (bus' = bus /\ outbox' = outbox)]_vars

-----------------------------------------------------------------------------
(***************************************************************************)
(* Claims about the connectivity probes                                    *)
(***************************************************************************)
\* an exception was raised inside the probe's DNS step, or inside its HTTPS
\* step (which runs only after the name was resolved)
ProbeThrew(p) ==
    \/ p.dns # "resolved"
    \/ p.dns = "resolved" /\ p.http \notin {"200", "204"}

\* C32: a probe in which the DNS step or the HTTPS step raised an exception
\* ends with the result "not connected"; the exception reaches neither the
\* caller of check_connection or force_check nor the except clause of the
\* monitor loop; and when the flag was true the prober goes on to the
\* true-to-false transition.
C32_ProbeErrorsMeanNotConnected ==
    (probe_last # NoProbe /\ ProbeThrew(probe_last))
        => /\ probe_last.result = "False"
           /\ ~probe_last.propagated
           /\ ~probe_last.caught
           /\ (probe_last.flag /\ pc[probe_last.caller] # "idle")
                 => mval[probe_last.caller] = FALSE

-----------------------------------------------------------------------------
(***************************************************************************)
(* Claims about check_updates                                              *)
(***************************************************************************)
\* what a release query determines of a component
ReleaseFields(comps, k) ==
    <<comps[k].latest_version, comps[k].update_available, comps[k].last_checked>>

Range(seq) == {seq[i] : i \in DOMAIN seq}

\* C33: a release query that fails for a component leaves the component's
\* latest_version, update_available and last_checked as they were; and when
\* check_updates returns, whatever queries failed, every component was
\* either queried or skipped as recently checked, and the result has one
\* entry for every component.
C33_FailureTouchesNothing ==
    /\ [][\A c \in Callers, k \in Keys :
             (k \in cul'[c].failed /\ k \notin cul[c].failed)
                => ReleaseFields(components', k) = ReleaseFields(components, k)]_vars
    /\ [](\A c \in Callers :
             cu[c].i = Returned
                => /\ Range(cul[c].issued) \cup Range(cul[c].skipped) = Keys
                   /\ cul[c].failed \subseteq Range(cul[c].issued)
                   /\ Range(cul[c].results) = Keys
                   /\ Len(cul[c].results) = Len(Order))

\* C33 witness: a call returns after the query for the core failed; the
\* scheduler and the remote were queried after it, and the core still has
\* no latest version
C33_Witness ==
    /\ cu["request"].i = Returned
    /\ cul["request"].failed = {"core"}
    /\ cul["request"].issued = Order
    /\ components["core"].latest_version = None
    /\ components["core"].last_checked = NoTime
    /\ components["scheduler"].last_checked = now_h

\* the component was checked less than check_interval_hours ago
Young(k) ==
    /\ components[k].last_checked # NoTime
    /\ now_h - components[k].last_checked < CheckInterval

\* what a step of a call adds to a sequence of its history
Added(c, before, after) ==
    IF cu[c].i = 0 THEN Range(after)
    ELSE {after[n] : n \in (Len(before) + 1)..Len(after)}
NewlySkipped(c) == Added(c, cul[c].skipped, cul'[c].skipped)
NewlyIssued(c) == Added(c, cul[c].issued, cul'[c].issued)

\* C34: an unforced check_updates issues no release query for a component
\* checked less than check_interval_hours ago and leaves its latest_version
\* (with release_url and release_notes) and last_checked as they were, while
\* its current_version is refreshed; a component is skipped in no other
\* case; and a forced check_updates queries every component.
C34_SkipsOnlyYoungUnforced ==
    /\ [][\A c \in Callers :
            cul'[c] # cul[c] =>
              /\ \A k \in NewlySkipped(c) :
                    /\ ~cul'[c].force /\ Young(k)
                    /\ components'[k].latest_version = components[k].latest_version
                    /\ components'[k].last_checked = components[k].last_checked
                    /\ components'[k].current_version = installed[k]
              /\ \A k \in NewlyIssued(c) : cul'[c].force \/ ~Young(k)]_vars
    /\ [](\A c \in Callers :
            (cu[c].i = Returned /\ cul[c].force)
                => cul[c].issued = Order /\ cul[c].skipped = <<>>)

\* C34 witness: an unforced call has returned that skipped the core, checked
\* within the interval, and queried the scheduler, whose earlier query had
\* failed
C34_Witness ==
    /\ cu["request"].i = Returned
    /\ ~cul["request"].force
    /\ cul["request"].skipped = <<"core">>
    /\ cul["request"].issued = <<"scheduler", "remote">>
    /\ components["core"].last_checked # NoTime

-----------------------------------------------------------------------------
(***************************************************************************)
(* Claims about the heartbeat loops under interleaving                     *)
(***************************************************************************)
\* the _countdown thread has found the timer at zero and is on its way to
\* emit the query and to clear the two events
CountdownDisarming == cdpc \in {"query", "clear_heartbeat", "clear_countdown"}

\* C35: when handle_heartbeat returns, under any interleaving with
\* _countdown, both events are set, and the countdown thread is not
\* disarming the loops on a zero it found before the reset (the timer
\* still holding heart_beat_loop_duration_secs): the heartbeat is not lost.
C35_HeartbeatNeverLost ==
    [][(hh = "set_countdown" /\ hh' = "idle") =>
          /\ heartbeat_event' /\ countdown_event'
          /\ countdown_timer' = heart_beat_loop_duration_secs
                => ~CountdownDisarming']_vars

\* both loops are armed and no heartbeat is being handled
Armed == hh = "idle" /\ heartbeat_event /\ countdown_event

\* C36: the countdown timer stays within 0..heart_beat_loop_duration_secs;
\* and once the loops are armed they are disarmed only by a countdown that
\* has run to zero: a step that clears an event of armed loops finds the
\* timer at zero (so that, with no further heartbeat, an armed countdown
\* reaches zero before its query and its disarming).
C36_CountdownRunsToZero ==
    /\ [](countdown_timer \in 0..heart_beat_loop_duration_secs)
    /\ [][(Armed /\ (~heartbeat_event' \/ ~countdown_event'))
             => countdown_timer = 0]_vars

-----------------------------------------------------------------------------
(***************************************************************************)
(* Claims about the supervisor's own echo                                  *)
(***************************************************************************)
\* the event loop starts the handler of the message posted first
StartsHandler == handlerTasks # <<>> /\ handlerTasks' = Tail(handlerTasks)
FromController(m) == "source" \in DOMAIN m /\ m.source = "controller"

\* C37: handling an inbound cloud message whose source is "controller" has
\* no effect, whatever its subject: the handler ends at once without
\* awaiting the update orchestrator, nothing is sent on the local bus or
\* published to the cloud, and the countdown and the two events of the
\* heartbeat loops stay as they were.
C37_EchoHasNoEffect ==
    [][(StartsHandler /\ FromController(received[Head(handlerTasks)])) =>
          /\ handling'[Head(handlerTasks)] = "finished"
          /\ bus' = bus /\ outbox' = outbox /\ effects' = effects
          /\ countdown_timer' = countdown_timer
          /\ heartbeat_event' = heartbeat_event
          /\ countdown_event' = countdown_event
          /\ updVars' = updVars]_vars

\* C37 witness: the controller's own heartbeat request and its own
\* check_updates request have been handled; nothing was sent and the loops
\* are not armed
C37_Witness ==
    /\ Len(received) = 2
    /\ received[1] = [subject |-> Dotted(StrController, StrHeartbeat),
                      source |-> "controller"]
    /\ received[2] = [subject |-> Dotted(StrUpdater, StrCheckUpdates),
                      source |-> "controller"]
    /\ handling = <<"finished", "finished">>
    /\ bus = <<>> /\ outbox = <<>>
    /\ ~heartbeat_event /\ ~countdown_event

-----------------------------------------------------------------------------
(***************************************************************************)
(* Claims about the components heartbeat loop                              *)
(***************************************************************************)
\* the heartbeat envelopes the bus was handed for a recipient
HeartbeatsTo(recipient) ==
    Len(SelectSeq(bus, LAMBDA e : e.recipient = recipient
                                    /\ e.message = component_heartbeat_message))

\* a cycle of the loop ends: the task goes back to its sleep
CycleEnds == chb_pc \in {"send_core", "send_scheduler"} /\ chb_pc' = "sleep"

-----------------------------------------------------------------------------
(***************************************************************************)
(* Claims about the periodic check task                                    *)
(***************************************************************************)
\* C39: at most one periodic check loop is alive at any time, a call of
\* start_periodic_check made while there is a task creates none, and once
\* stop_periodic_check has returned no loop is alive, none is inside
\* check_updates and no scheduled check_updates call begins.
C39_OneLoopAndStopWaits ==
    /\ [](/\ Cardinality(Alive(pcl_loops)) <= 1
          /\ spc_pc = "returned" => (Alive(pcl_loops) = {} /\ pcl_fetch = 0))
    /\ [][/\ pcl_task # 0 => Alive(pcl_loops') \subseteq Alive(pcl_loops)
          /\ spc_pc = "returned" => pcl_checks' = pcl_checks]_vars

\* C39 witness: start_periodic_check was called twice, the one loop was
\* inside its second scheduled check when it was cancelled, and
\* stop_periodic_check has returned
C39_Witness ==
    /\ spc_pc = "returned"
    /\ pcl_starts = 2
    /\ pcl_checks = 2
    /\ pcl_loops = [id \in LoopIds |-> IF id = 1 THEN "ended" ELSE "unborn"]

-----------------------------------------------------------------------------
(***************************************************************************)
(* Claims about the waits of the NTP monitoring loop                       *)
(***************************************************************************)
\* the larger of two numbers
Max(a, b) == IF a >= b THEN a ELSE b

\* C40: two consecutive probes of the NTP monitoring loop are at least
\* max(1, ntpCheckIntervalSecs) seconds apart, so at least one second with
\* the interval configured as 0, whether the loop came from the one to the
\* other through the sleep of its try block only or through the sleep of
\* its except clause as well.
C40_NtpWaitsAtLeastOneSecond ==
    ntw_gap # NoTime => ntw_gap >= Max(1, ntw_interval)

=============================================================================
